---- MODULE Spec2Model ----
(***************************************************************************)
(* Verification model of varnish (lkendrickd/varnish): the Resolver        *)
(* (internal/resolver), the Store's persistence protocol (internal/store)  *)
(* and the atomic-write helper (internal/config).                          *)
(*                                                                         *)
(* Strings are sequences of one-character strings, so that formatting,    *)
(* matching and interpolation are computed character by character.         *)
(***************************************************************************)
EXTENDS Integers, Sequences, FiniteSets, TLC

VARIABLES
    mPattern,    \* matcher harness: the pattern handed to matchPattern
    mKey,        \* matcher harness: the key handed to matchPattern
    mCalled,     \* matcher harness: whether matchPattern has returned
    mResult,     \* matcher harness: what matchPattern returned
    rStore,      \* Resolver.store: [Version, Variables, encrypted]
    rProject,    \* Resolver.project: [Version, Project, Include, Overrides, Mappings, Computed]
    rResolved,   \* <<list>>: what the last Resolve() call returned; <<>> before it
    rPrevious,   \* <<list>>: what the Resolve() call before the last returned
    rMissing,    \* <<list>>: what the last MissingVars() call returned
    wFiles,      \* the directory of the target: path -> [exists, data, perm]
    wPc,         \* per writing process: the step of AtomicWrite it is at
    wTmpName,    \* per writing process: tmpName ("" before CreateTemp and after Rename)
    wWritten,    \* per writing process: bytes of data that tmp.Write has written
    wPerm,       \* per writing process: the perm argument
    wBefore,     \* the target file as it was before any write started
    wLastRename, \* the process whose os.Rename was the last to happen ("" if none)
    sStore,      \* the *Store in memory: [Version, Variables, encrypted]
    sLast,       \* per key, the last Set or Delete on it: <<"set", v>>, <<"delete">>, <<"none">>
    sRet,        \* <<r>>: what the last call on the Store or its file returned; <<>> if nothing
    sFile,       \* the store file: [exists, data]
    sEnv,        \* the value of VARNISH_PASSWORD ("" when unset)
    sSaved,      \* <<[store, password]>>: what the last successful SaveTo wrote to the file
    sLoaded      \* <<store>>: the Store as Load() gave it to the invocation, <<>> if none did

VARIABLES
    cPlaintext,  \* crypto harness: the plaintext handed to Encrypt
    cPassword,   \* crypto harness: the password handed to Encrypt
    cDrawn,      \* crypto harness: what rand.Read has returned so far
    cBlobs,      \* crypto harness: what the calls of Encrypt returned, in order
    cData,       \* crypto harness: <<[bytes, of, edits]>>, the bytes to hand to Decrypt
    cRet         \* crypto harness: <<[password, err, msg, plaintext]>> of the last Decrypt

VARIABLES
    pFile,       \* project harness: <<document>> of the configuration file, <<>> if none
    pRet         \* project harness: <<[op, err, cfg]>> of the last call, cfg <<>> for nil

VARIABLES
    nName,       \* name harness: the variable name of a line of the env file
    nKey,        \* name harness: <<key>> made from nName, <<>> before
    nBack,       \* name harness: <<name>> made from the key, <<>> before
    nAgain       \* name harness: <<key>> made from that name, <<>> before

VARIABLES
    iEnvFile,    \* init harness: the lines of the env file
    iBefore,     \* init harness: the variables of the Store before the command
    iStore,      \* init harness: the variables of the Store
    iRet         \* init harness: <<[op, sync, noImport, err, vars, include]>> of the command

matchVars == <<mPattern, mKey, mCalled, mResult>>
resolverVars == <<rStore, rProject, rResolved, rPrevious, rMissing>>
writeVars == <<wFiles, wPc, wTmpName, wWritten, wPerm, wBefore, wLastRename>>
storeVars == <<sStore, sLast, sRet, sFile, sEnv, sSaved, sLoaded>>
cryptoVars == <<cPlaintext, cPassword, cDrawn, cBlobs, cData, cRet>>
projectVars == <<pFile, pRet>>
nameVars == <<nName, nKey, nBack, nAgain>>
initVars == <<iEnvFile, iBefore, iStore, iRet>>
vars == <<matchVars, resolverVars, writeVars, storeVars, cryptoVars, projectVars, nameVars, initVars>>

(***************************************************************************)
(* Bounds of the model.                                                    *)
(***************************************************************************)
MaxPatLen == 3
MaxKeyLen == 2
MaxStore == 2      \* variables in the Store handed to the Resolver
MaxInclude == 2    \* include patterns of the Project Configuration
PayloadLen == 2    \* bytes of the data handed to an atomic write

(***************************************************************************)
(* Characters.  CharCode is the byte value Go compares strings by.         *)
(***************************************************************************)
NUL == "NUL"

CharCode(c) ==
    CASE c = NUL  -> 0
      [] c = "!"  -> 33
      [] c = "$"  -> 36
      [] c = "*"  -> 42
      [] c = "-"  -> 45
      [] c = "."  -> 46
      [] c = "/"  -> 47
      [] c = "1"  -> 49
      [] c = "2"  -> 50
      [] c = "9"  -> 57
      [] c = "?"  -> 63
      [] c = "A"  -> 65
      [] c = "B"  -> 66
      [] c = "C"  -> 67
      [] c = "P"  -> 80
      [] c = "Q"  -> 81
      [] c = "X"  -> 88
      [] c = "Y"  -> 89
      [] c = "Z"  -> 90
      [] c = "["  -> 91
      [] c = "\\" -> 92
      [] c = "]"  -> 93
      [] c = "^"  -> 94
      [] c = "_"  -> 95
      [] c = "a"  -> 97
      [] c = "b"  -> 98
      [] c = "c"  -> 99
      [] c = "p"  -> 112
      [] c = "q"  -> 113
      [] c = "x"  -> 120
      [] c = "y"  -> 121
      [] c = "z"  -> 122
      [] c = "{"  -> 123
      [] c = "}"  -> 125

\* All sequences over S of length at most n.
SeqsUpTo(S, n) == UNION {[1..k -> S] : k \in 0..n}

Drop(s, n) == SubSeq(s, n + 1, Len(s))

Contains(s, c) == \E i \in 1..Len(s) : s[i] = c

IsPrefixOf(p, s) == Len(p) <= Len(s) /\ SubSeq(s, 1, Len(p)) = p

\* strings.ReplaceAll(s, ".", "\x00")
ReplaceDots(s) == [i \in 1..Len(s) |-> IF s[i] = "." THEN NUL ELSE s[i]]

(***************************************************************************)
(* filepath.Match (Go 1.23, non-Windows), as called by matchPattern.       *)
(***************************************************************************)
RECURSIVE ScanIdx(_, _, _)
\* scanChunk's Scan loop: the 1-based index of the first `*` outside a class
\* at or after i, or Len(p)+1.
ScanIdx(p, i, inrange) ==
    IF i > Len(p) THEN Len(p) + 1
    ELSE CASE p[i] = "\\" -> ScanIdx(p, (IF i + 1 <= Len(p) THEN i + 2 ELSE i + 1), inrange)
           [] p[i] = "["  -> ScanIdx(p, i + 1, TRUE)
           [] p[i] = "]"  -> ScanIdx(p, i + 1, FALSE)
           [] p[i] = "*"  -> IF ~inrange THEN i ELSE ScanIdx(p, i + 1, inrange)
           [] OTHER       -> ScanIdx(p, i + 1, inrange)

RECURSIVE StripStars(_)
StripStars(p) == IF p # <<>> /\ p[1] = "*" THEN StripStars(Tail(p)) ELSE p

scanChunk(pattern) ==
    LET q == StripStars(pattern)
        i == ScanIdx(q, 1, FALSE)
    IN  [star  |-> pattern # <<>> /\ pattern[1] = "*",
         chunk |-> SubSeq(q, 1, i - 1),
         rest  |-> Drop(q, i - 1)]

\* getEsc: one (possibly escaped) character of a class.
getEsc(chunk) ==
    IF chunk = <<>> \/ chunk[1] = "-" \/ chunk[1] = "]"
    THEN [err |-> TRUE, r |-> NUL, rest |-> <<>>]
    ELSE LET c1 == IF chunk[1] = "\\" THEN Tail(chunk) ELSE chunk
         IN  IF c1 = <<>> \/ Tail(c1) = <<>>
             THEN [err |-> TRUE, r |-> NUL, rest |-> <<>>]
             ELSE [err |-> FALSE, r |-> c1[1], rest |-> Tail(c1)]

RECURSIVE ClassLoop(_, _, _, _)
\* The "parse all ranges" loop of matchChunk; r is the character read from
\* the name (NUL, the zero rune, once the match has failed).
ClassLoop(chunk, r, match, nrange) ==
    IF chunk # <<>> /\ chunk[1] = "]" /\ nrange > 0
    THEN [err |-> FALSE, match |-> match, rest |-> Tail(chunk)]
    ELSE LET lo == getEsc(chunk)
         IN  IF lo.err THEN [err |-> TRUE, match |-> FALSE, rest |-> <<>>]
             ELSE IF lo.rest[1] = "-"
             THEN LET hi == getEsc(Tail(lo.rest))
                  IN  IF hi.err THEN [err |-> TRUE, match |-> FALSE, rest |-> <<>>]
                      ELSE ClassLoop(hi.rest, r,
                               match \/ (CharCode(lo.r) <= CharCode(r)
                                          /\ CharCode(r) <= CharCode(hi.r)),
                               nrange + 1)
             ELSE ClassLoop(lo.rest, r, match \/ lo.r = r, nrange + 1)

RECURSIVE MatchChunkFrom(_, _, _)
MatchChunkFrom(chunk, s, failed0) ==
    IF chunk = <<>>
    THEN IF failed0 THEN [rest |-> <<>>, ok |-> FALSE, err |-> FALSE]
                    ELSE [rest |-> s, ok |-> TRUE, err |-> FALSE]
    ELSE LET failed == failed0 \/ s = <<>>
             lit(c) == \* the default case: c is compared with s[1]
                 IF failed THEN MatchChunkFrom(Tail(c), s, TRUE)
                 ELSE MatchChunkFrom(Tail(c), Tail(s), c[1] # s[1])
         IN  CASE chunk[1] = "[" ->
                    LET r   == IF failed THEN NUL ELSE s[1]
                        s1  == IF failed THEN s ELSE Tail(s)
                        c1  == Tail(chunk)
                        neg == c1 # <<>> /\ c1[1] = "^"
                        c2  == IF neg THEN Tail(c1) ELSE c1
                        cl  == ClassLoop(c2, r, FALSE, 0)
                    IN  IF cl.err THEN [rest |-> <<>>, ok |-> FALSE, err |-> TRUE]
                        ELSE MatchChunkFrom(cl.rest, s1, failed \/ (cl.match = neg))
               [] chunk[1] = "?" ->
                    IF failed THEN MatchChunkFrom(Tail(chunk), s, TRUE)
                    ELSE MatchChunkFrom(Tail(chunk), Tail(s), s[1] = "/")
               [] chunk[1] = "\\" ->
                    IF Tail(chunk) = <<>> THEN [rest |-> <<>>, ok |-> FALSE, err |-> TRUE]
                    ELSE lit(Tail(chunk))
               [] OTHER -> lit(chunk)

matchChunk(chunk, s) == MatchChunkFrom(chunk, s, FALSE)

RECURSIVE RestInvalid(_)
\* "Before returning false with no error, check that the remainder of the
\* pattern is syntactically valid."
RestInvalid(pattern) ==
    IF pattern = <<>> THEN FALSE
    ELSE LET sc == scanChunk(pattern)
         IN  matchChunk(sc.chunk, <<>>).err \/ RestInvalid(sc.rest)

RECURSIVE StarLoop(_, _, _, _)
\* "Look for match skipping i+1 bytes.  Cannot skip /."  (i is 0-based.)
StarLoop(chunk, rest, name, i) ==
    IF i >= Len(name) \/ name[i + 1] = "/" THEN [kind |-> "nomatch", name |-> <<>>]
    ELSE LET m == matchChunk(chunk, Drop(name, i + 1))
         IN  IF m.ok
             THEN IF rest = <<>> /\ m.rest # <<>>
                  THEN StarLoop(chunk, rest, name, i + 1)
                  ELSE [kind |-> "cont", name |-> m.rest]
             ELSE IF m.err THEN [kind |-> "err", name |-> <<>>]
             ELSE StarLoop(chunk, rest, name, i + 1)

RECURSIVE Match(_, _)
Match(pattern, name) ==
    IF pattern = <<>> THEN [matched |-> name = <<>>, err |-> FALSE]
    ELSE LET sc == scanChunk(pattern)
         IN  IF sc.star /\ sc.chunk = <<>>
             THEN [matched |-> ~Contains(name, "/"), err |-> FALSE]
             ELSE LET m == matchChunk(sc.chunk, name)
                  IN  IF m.ok /\ (m.rest = <<>> \/ sc.rest # <<>>)
                      THEN Match(sc.rest, m.rest)
                      ELSE IF m.err THEN [matched |-> FALSE, err |-> TRUE]
                      ELSE LET sl == IF sc.star THEN StarLoop(sc.chunk, sc.rest, name, 0)
                                     ELSE [kind |-> "nomatch", name |-> <<>>]
                           IN  CASE sl.kind = "cont" -> Match(sc.rest, sl.name)
                                 [] sl.kind = "err"  -> [matched |-> FALSE, err |-> TRUE]
                                 [] OTHER -> [matched |-> FALSE, err |-> RestInvalid(sc.rest)]

(***************************************************************************)
(* resolver.matchPattern                                                   *)
(***************************************************************************)
\* matchPattern with the dots turned into the path separator itself.
matchPatternDotSeparator(pattern, key) ==
    LET slashed(t) == [i \in 1..Len(t) |-> IF t[i] = "." THEN "/" ELSE t[i]]
        m == Match(slashed(pattern), slashed(key))
    IN  IF m.err THEN pattern = key ELSE m.matched

matchPattern(pattern, key) ==
    LET m == Match(ReplaceDots(pattern), ReplaceDots(key))
    IN  IF m.err THEN pattern = key ELSE m.matched

(***************************************************************************)
(* Maps (Go map[string]T) are functions; Put is m[k] = v.                  *)
(***************************************************************************)
EmptyMap == <<>>

Put(m, k, v) == [x \in (DOMAIN m) \cup {k} |-> IF x = k THEN v ELSE m[x]]

\* Every order in which a `range` over a map with key set S can visit it.
Orders(S) == {o \in [1..Cardinality(S) -> S] : \A i, j \in DOMAIN o : o[i] = o[j] => i = j}

\* Go's < on strings: bytewise lexicographic.
RECURSIVE StrLess(_, _)
StrLess(a, b) ==
    IF b = <<>> THEN FALSE
    ELSE IF a = <<>> THEN TRUE
    ELSE IF a[1] = b[1] THEN StrLess(Tail(a), Tail(b))
    ELSE CharCode(a[1]) < CharCode(b[1])

\* unicode.ToUpper on the characters of the model.
UpperChar(c) ==
    CASE c = "a" -> "A" [] c = "b" -> "B" [] c = "c" -> "C" [] c = "p" -> "P"
      [] c = "q" -> "Q" [] c = "x" -> "X" [] c = "y" -> "Y" [] c = "z" -> "Z"
      [] OTHER -> c

(***************************************************************************)
(* resolver.Resolver                                                       *)
(***************************************************************************)
\* prefix := ""; if r.project.Project != "" { prefix = r.project.Project + "." }
Prefix(project) == IF project.Project # <<>> THEN project.Project \o <<".">> ELSE <<>>

\* logicalKey of Resolve's step 1.
LogicalKey(storeKey, prefix) ==
    IF prefix # <<>> /\ IsPrefixOf(prefix, storeKey) THEN Drop(storeKey, Len(prefix))
    ELSE storeKey

keyToEnvName(project, key) ==
    IF key \in DOMAIN project.Mappings THEN project.Mappings[key]
    ELSE [i \in 1..Len(key) |-> UpperChar(IF key[i] = "." THEN "_" ELSE key[i])]

RECURSIVE StorePass(_, _, _, _, _, _)
\* The inner loop of step 1: one `range r.store.Variables`, visiting the
\* keys in the order ord.
StorePass(resolved, storePattern, prefix, variables, ord, i) ==
    IF i > Len(ord) THEN resolved
    ELSE LET storeKey == ord[i]
             next == IF matchPattern(storePattern, storeKey)
                     THEN Put(resolved, LogicalKey(storeKey, prefix),
                              [value |-> variables[storeKey], source |-> "store"])
                     ELSE resolved
         IN  StorePass(next, storePattern, prefix, variables, ord, i + 1)

RECURSIVE IncludeLoop(_, _, _, _, _)
\* Step 1: for _, pattern := range r.project.Include.  Each inner range over
\* the Store's map visits it in an order of Go's choosing: the result is
\* the set of maps the loop can leave, from the maps it can have built
\* before the j-th pattern.
IncludeLoop(resolvedSet, include, prefix, variables, j) ==
    IF j > Len(include) THEN resolvedSet
    ELSE IncludeLoop(
            UNION {{StorePass(resolved, prefix \o include[j], prefix, variables, ord, 1) :
                        ord \in Orders(DOMAIN variables)} : resolved \in resolvedSet},
            include, prefix, variables, j + 1)

\* Step 2 with an override applied only to a key step 1 left unset.
ApplyOverridesStoreFirst(resolved, overrides) ==
    [k \in (DOMAIN resolved) \cup (DOMAIN overrides) |->
        IF k \in DOMAIN resolved THEN resolved[k]
        ELSE [value |-> overrides[k], source |-> "override"]]

\* Step 2: for key, value := range r.project.Overrides (distinct keys: the
\* order of the range cannot show).
ApplyOverrides(resolved, overrides) ==
    [k \in (DOMAIN resolved) \cup (DOMAIN overrides) |->
        IF k \in DOMAIN overrides THEN [value |-> overrides[k], source |-> "override"]
        ELSE resolved[k]]

\* Steps 1 and 2: the merged maps (logical key to value and source) that
\* Resolve() can have built when it reaches step 3.
Merged(store, project) ==
    {ApplyOverrides(resolved, project.Overrides) :
        resolved \in IncludeLoop({EmptyMap}, project.Include, Prefix(project),
                                 store.Variables, 1)}

RECURSIVE BuildVars(_, _, _, _, _)
\* Step 3: for key, inter := range resolved, in the order ord.
BuildVars(varsMap, resolved, project, ord, i) ==
    IF i > Len(ord) THEN varsMap
    ELSE LET key == ord[i]
             envName == keyToEnvName(project, key)
         IN  BuildVars(Put(varsMap, envName,
                           [EnvName |-> envName, Value |-> resolved[key].value,
                            Source |-> resolved[key].source, Key |-> key]),
                       resolved, project, ord, i + 1)

\* The lookups with the un-prefixed Store key tried before the prefixed one.
LookupRefGlobalFirst(key, values, store, prefix) ==
    IF key \in DOMAIN values THEN values[key]
    ELSE IF key \in DOMAIN store.Variables THEN store.Variables[key]
    ELSE IF (prefix \o key) \in DOMAIN store.Variables THEN store.Variables[prefix \o key]
    ELSE <<"$", "{">> \o key \o <<"}">>

\* The lookups of interpolate's replacement function for one ${key}.
LookupRef(key, values, store, prefix) ==
    IF key \in DOMAIN values THEN values[key]
    ELSE IF (prefix \o key) \in DOMAIN store.Variables THEN store.Variables[prefix \o key]
    ELSE IF key \in DOMAIN store.Variables THEN store.Variables[key]
    ELSE <<"$", "{">> \o key \o <<"}">>

\* The end of the leftmost-first match of \$\{([^}]+)\} starting at i, or 0.
RefEnd(t, i) ==
    IF i + 3 <= Len(t) /\ t[i] = "$" /\ t[i + 1] = "{" /\ t[i + 2] # "}"
       /\ \E j \in (i + 3)..Len(t) : t[j] = "}"
    THEN CHOOSE j \in (i + 3)..Len(t) :
            t[j] = "}" /\ \A h \in (i + 3)..(j - 1) : t[h] # "}"
    ELSE 0

RECURSIVE InterpolateFrom(_, _, _, _, _)
\* re.ReplaceAllStringFunc: non-overlapping matches left to right, the
\* replacement text is not scanned again.
InterpolateFrom(t, i, values, store, prefix) ==
    IF i > Len(t) THEN <<>>
    ELSE LET j == RefEnd(t, i)
         IN  IF j = 0 THEN <<t[i]>> \o InterpolateFrom(t, i + 1, values, store, prefix)
             ELSE LookupRef(SubSeq(t, i + 2, j - 1), values, store, prefix)
                  \o InterpolateFrom(t, j + 1, values, store, prefix)

interpolate(template, values, store, project) ==
    InterpolateFrom(template, 1, values, store, Prefix(project))

\* valueMap of step 4.
ValueMap(resolved) == [k \in DOMAIN resolved |-> resolved[k].value]

RECURSIVE ComputedLoopKeepExisting(_, _, _, _, _, _)
\* Step 4 with a computed entry added only under a name step 3 left free.
ComputedLoopKeepExisting(varsMap, valueMap, store, project, ord, i) ==
    IF i > Len(ord) THEN varsMap
    ELSE LET envName == ord[i]
             value == interpolate(project.Computed[envName], valueMap, store, project)
             next == IF envName \in DOMAIN varsMap THEN varsMap
                     ELSE Put(varsMap, envName,
                              [EnvName |-> envName, Value |-> value,
                               Source |-> "computed", Key |-> <<>>])
         IN  ComputedLoopKeepExisting(next, valueMap, store, project, ord, i + 1)

RECURSIVE ComputedLoopChained(_, _, _, _, _, _)
\* Step 4 with each computed value added to valueMap for the entries the
\* range visits after it.
ComputedLoopChained(varsMap, valueMap, store, project, ord, i) ==
    IF i > Len(ord) THEN varsMap
    ELSE LET envName == ord[i]
             value == interpolate(project.Computed[envName], valueMap, store, project)
         IN  ComputedLoopChained(Put(varsMap, envName,
                                     [EnvName |-> envName, Value |-> value,
                                      Source |-> "computed", Key |-> <<>>]),
                                 Put(valueMap, envName, value), store, project, ord, i + 1)

RECURSIVE ComputedLoop(_, _, _, _, _, _)
\* Step 4: for envName, template := range r.project.Computed, in the order ord.
ComputedLoop(varsMap, valueMap, store, project, ord, i) ==
    IF i > Len(ord) THEN varsMap
    ELSE LET envName == ord[i]
             value == interpolate(project.Computed[envName], valueMap, store, project)
         IN  ComputedLoop(Put(varsMap, envName,
                              [EnvName |-> envName, Value |-> value,
                               Source |-> "computed", Key |-> <<>>]),
                          valueMap, store, project, ord, i + 1)

RECURSIVE SortDescending(_)
\* sort.Slice with the comparison turned around.
SortDescending(entries) ==
    IF entries = {} THEN <<>>
    ELSE LET greatest == CHOOSE e \in entries :
                            \A f \in entries \ {e} : StrLess(f.EnvName, e.EnvName)
         IN  <<greatest>> \o SortDescending(entries \ {greatest})

RECURSIVE SortByEnvName(_)
\* sort.Slice(result, EnvName <) on the entries of a set with distinct EnvNames.
SortByEnvName(entries) ==
    IF entries = {} THEN <<>>
    ELSE LET least == CHOOSE e \in entries :
                         \A f \in entries \ {e} : StrLess(e.EnvName, f.EnvName)
         IN  <<least>> \o SortByEnvName(entries \ {least})

\* Every list Resolve() can return: each of its ranges over a map visits the
\* map in an order of Go's choosing.  The outcomes are collected step by
\* step: the merged maps of steps 1 and 2, the vars maps step 3 builds from
\* each, the vars maps step 4 leaves, and their sorted slices.
ResolveOutcomes(store, project) ==
    LET step3 == UNION {{[resolved |-> resolved,
                          vars3 |-> BuildVars(EmptyMap, resolved, project, ord, 1)] :
                            ord \in Orders(DOMAIN resolved)} :
                                resolved \in Merged(store, project)}
        step4 == UNION {{ComputedLoop(s3.vars3, ValueMap(s3.resolved), store, project, ord, 1) :
                            ord \in Orders(DOMAIN project.Computed)} : s3 \in step3}
    IN  {SortByEnvName({vars4[n] : n \in DOMAIN vars4}) : vars4 \in step4}

\* strings.ContainsAny(pattern, "*?[")
HasGlobMeta(pattern) == \E i \in 1..Len(pattern) : pattern[i] \in {"*", "?", "["}

RECURSIVE MissingLoop(_, _, _, _, _)
\* The loop of MissingVars: missing is the slice, in order of appending.
MissingLoop(missing, include, prefix, variables, j) ==
    IF j > Len(include) THEN missing
    ELSE LET pattern == include[j]
             seen == {missing[i] : i \in 1..Len(missing)}
             next == IF HasGlobMeta(pattern) THEN missing
                     ELSE IF (prefix \o pattern) \notin DOMAIN variables /\ pattern \notin seen
                     THEN Append(missing, pattern)
                     ELSE missing
         IN  MissingLoop(next, include, prefix, variables, j + 1)

\* The slice left as the loop appended it.
UnsortedStrings(s) == s

RECURSIVE SortStrings(_)
\* sort.Strings
SortStrings(s) ==
    IF s = <<>> THEN <<>>
    ELSE LET i == CHOOSE i \in 1..Len(s) :
                     \A h \in 1..Len(s) : ~StrLess(s[h], s[i])
         IN  <<s[i]>> \o SortStrings(SubSeq(s, 1, i - 1) \o Drop(s, i))

MissingVars(store, project) ==
    SortStrings(MissingLoop(<<>>, project.Include, Prefix(project), store.Variables, 1))

(***************************************************************************)
(* Matcher harness: matchPattern applied to every bounded pattern and key. *)
(***************************************************************************)
\* The variables of the harnesses a specification does not use stay as here.
StoreIdle ==
    /\ sStore = <<>> /\ sLast = <<>> /\ sRet = <<>> /\ sFile = <<>>
    /\ sEnv = <<>> /\ sSaved = <<>> /\ sLoaded = <<>>

CryptoIdle ==
    /\ cPlaintext = <<>> /\ cPassword = <<>> /\ cDrawn = {}
    /\ cBlobs = <<>> /\ cData = <<>> /\ cRet = <<>>

ProjectIdle == pFile = <<>> /\ pRet = <<>>

NameIdle == nName = <<>> /\ nKey = <<>> /\ nBack = <<>> /\ nAgain = <<>>

InitIdle == iEnvFile = <<>> /\ iBefore = <<>> /\ iStore = <<>> /\ iRet = <<>>

WriteIdle ==
    /\ wFiles = <<>> /\ wPc = <<>> /\ wTmpName = <<>>
    /\ wWritten = <<>> /\ wPerm = <<>> /\ wBefore = <<>> /\ wLastRename = ""

MatchIdle == mPattern = <<>> /\ mKey = <<>> /\ mCalled = FALSE /\ mResult = FALSE

ResolverIdle ==
    /\ rStore = [Version |-> 1, Variables |-> EmptyMap, encrypted |-> FALSE]
    /\ rProject = [Version |-> 1, Project |-> <<>>, Include |-> <<>>,
                   Overrides |-> EmptyMap, Mappings |-> EmptyMap, Computed |-> EmptyMap]
    /\ rResolved = <<>>
    /\ rPrevious = <<>>
    /\ rMissing = <<>>

PatChars == {"a", ".", "*", "?", "[", "]", "\\", "/"}
KeyChars == {"a", ".", "/", "["}

InitMatch ==
    /\ mPattern \in SeqsUpTo(PatChars, MaxPatLen)
    /\ mKey \in SeqsUpTo(KeyChars, MaxKeyLen)
    /\ mCalled = FALSE
    /\ mResult = FALSE
    /\ ResolverIdle
    /\ WriteIdle
    /\ StoreIdle
    /\ CryptoIdle
    /\ ProjectIdle
    /\ NameIdle
    /\ InitIdle

CallMatchPattern ==
    /\ ~mCalled
    /\ mCalled' = TRUE
    /\ mResult' = matchPattern(mPattern, mKey)
    /\ UNCHANGED <<mPattern, mKey, resolverVars, writeVars, storeVars, cryptoVars, projectVars, nameVars, initVars>>

NextMatch == CallMatchPattern

SpecMatch == InitMatch /\ [][NextMatch]_vars

(***************************************************************************)
(* Resolver harness: one Resolver over a Store and a Project Configuration *)
(* drawn from the sets below, on which Resolve() and MissingVars() are     *)
(* called.                                                                 *)
(***************************************************************************)
kPAB == <<"p", ".", "a", ".", "b">>
kPAuB == <<"p", ".", "a", "_", "b">>
kPC == <<"p", ".", "c">>
kC == <<"c">>
kAB == <<"a", ".", "b">>
nAB == <<"A", "_", "B">>
nX == <<"X">>
nY == <<"Y">>

StoreKeys == {kPAB, kPAuB, kPC, kC}

\* The value each key holds when the Store has it: the project's and the
\* global variable of the same logical key differ.
StoreValue(k) == IF k \in {kPAB, kPC} THEN <<"1">> ELSE <<"2">>

Stores ==
    {[Version |-> 1, Variables |-> [k \in S |-> StoreValue(k)], encrypted |-> FALSE] :
        S \in {T \in SUBSET StoreKeys : Cardinality(T) <= MaxStore}}

ProjectNames == {<<>>, <<"p">>, <<"*">>}

\* Include patterns of the Resolve() harness: a literal key, a pattern that
\* matches a.b and a_b, and the pattern that matches every key.
IncludePatterns == {kC, <<"a", "?", "b">>, <<"*">>}

\* Include patterns of the MissingVars() harness: two literal keys and one
\* pattern for each metacharacter.
MissingPatterns == {kC, kAB, <<"a", "?", "b">>, <<"*">>, <<"[", "c", "]">>}

OverrideMaps == {EmptyMap, kC :> <<"9">>}

MappingMaps == {EmptyMap, kC :> nAB}

\* "${" key "}"
Ref(key) == <<"$", "{">> \o key \o <<"}">>

ComputedMaps ==
    {EmptyMap,
     nX :> (<<"$">> \o Ref(kC) \o <<"-">> \o Ref(<<"z">>)),
     nAB :> Ref(kAB),
     (nX :> Ref(nY)) @@ (nY :> Ref(kC))}

ProjectsOver(patterns, computedMaps) ==
    {[Version |-> 1, Project |-> n, Include |-> inc,
      Overrides |-> o, Mappings |-> m, Computed |-> c] :
        n \in ProjectNames, inc \in SeqsUpTo(patterns, MaxInclude),
        o \in OverrideMaps, m \in MappingMaps, c \in computedMaps}

InitResolver ==
    /\ rStore \in Stores
    /\ rProject \in ProjectsOver(IncludePatterns, ComputedMaps)
    /\ rResolved = <<>>
    /\ rPrevious = <<>>
    /\ rMissing = <<>>
    /\ MatchIdle
    /\ WriteIdle
    /\ StoreIdle
    /\ CryptoIdle
    /\ ProjectIdle
    /\ NameIdle
    /\ InitIdle

InitMissing ==
    /\ rStore \in Stores
    /\ rProject \in ProjectsOver(MissingPatterns, {EmptyMap, nAB :> Ref(kAB)})
    /\ rResolved = <<>>
    /\ rPrevious = <<>>
    /\ rMissing = <<>>
    /\ MatchIdle
    /\ WriteIdle
    /\ StoreIdle
    /\ CryptoIdle
    /\ ProjectIdle
    /\ NameIdle
    /\ InitIdle

\* Resolve() storing each override under its Store key as well.
ResolveWritingBack ==
    /\ \E result \in ResolveOutcomes(rStore, rProject) : rResolved' = <<result>>
    /\ rPrevious' = rResolved
    /\ rStore' = [rStore EXCEPT !.Variables =
                     [s \in (DOMAIN rStore.Variables)
                               \cup {Prefix(rProject) \o k : k \in DOMAIN rProject.Overrides} |->
                         IF \E k \in DOMAIN rProject.Overrides : s = Prefix(rProject) \o k
                         THEN rProject.Overrides[Drop(s, Len(Prefix(rProject)))]
                         ELSE rStore.Variables[s]]]
    /\ UNCHANGED <<rProject, rMissing, matchVars, writeVars, storeVars, cryptoVars, projectVars, nameVars, initVars>>

\* r.Resolve()
Resolve ==
    /\ \E result \in ResolveOutcomes(rStore, rProject) : rResolved' = <<result>>
    /\ rPrevious' = rResolved
    /\ UNCHANGED <<rStore, rProject, rMissing, matchVars, writeVars, storeVars, cryptoVars, projectVars, nameVars, initVars>>

\* r.MissingVars()
CallMissingVars ==
    /\ rMissing' = <<MissingVars(rStore, rProject)>>
    /\ UNCHANGED <<rStore, rProject, rResolved, rPrevious, matchVars, writeVars, storeVars, cryptoVars, projectVars, nameVars, initVars>>

NextResolver == Resolve

NextMissing == CallMissingVars

NextCalls == Resolve \/ CallMissingVars

\* Resolve() called any number of times on one Resolver.
SpecResolver == InitResolver /\ [][NextResolver]_vars

\* MissingVars() called on one Resolver.
SpecMissing == InitMissing /\ [][NextMissing]_vars

\* Resolve() and MissingVars() called in any order on one Resolver.
SpecCalls == InitResolver /\ [][NextCalls]_vars

(***************************************************************************)
(* The store file's document: yaml.Marshal and yaml.Unmarshal of a Store   *)
(* (gopkg.in/yaml.v3), on the documents a Store has: the integer           *)
(* `version` and the string-to-string mapping `variables`.  A document is  *)
(* a sequence of characters, LF the line break.                            *)
(***************************************************************************)
\* A local variable: the value of F at x, x computed once.
Bind(x, F(_)) == CHOOSE y \in {F(v) : v \in {x}} : TRUE

LF == "LF"

kwVersion == <<"v", "e", "r", "s", "i", "o", "n", ":", " ">>

kwVariables == <<"v", "a", "r", "i", "a", "b", "l", "e", "s", ":">>

Indent == <<" ", " ", " ", " ">>

DigitChars == <<"0", "1", "2", "3", "4", "5", "6", "7", "8", "9">>

\* A scalar that, written plain, would not be read back as a string: the
\* null forms and integers.
ResolvesNonString(s) ==
    \/ s = <<>>
    \/ s = <<"~">>
    \/ \A i \in 1..Len(s) : \E d \in 1..10 : s[i] = DigitChars[d]

\* Characters that cannot start a plain scalar.
Indicators == {"'", "\"", "#", ",", "[", "]", "{", "}", "&", "*", "!", "|", ">", "%", "@"}

\* A string the emitter does not write plain.
PlainForbidden(s) ==
    \/ s[1] \in Indicators \cup {" "}
    \/ s[Len(s)] \in {" ", ":"}
    \/ \E i \in 1..(Len(s) - 1) : (s[i] = ":" /\ s[i + 1] = " ") \/ (s[i] = " " /\ s[i + 1] = "#")

RECURSIVE SingleQuotedBody(_)
SingleQuotedBody(s) ==
    IF s = <<>> THEN <<>>
    ELSE (IF s[1] = "'" THEN <<"'", "'">> ELSE <<s[1]>>) \o SingleQuotedBody(Tail(s))

RECURSIVE DoubleQuotedBody(_)
DoubleQuotedBody(s) ==
    IF s = <<>> THEN <<>>
    ELSE (IF s[1] \in {"\"", "\\"} THEN <<"\\", s[1]>> ELSE <<s[1]>>) \o DoubleQuotedBody(Tail(s))

\* Every scalar written plain, whatever it holds.
ScalarPlain(s) == s

\* The encoder's choice of style for a string: double-quoted when the plain
\* text would resolve to another type, single-quoted when the emitter
\* cannot write it plain, plain otherwise.
Scalar(s) ==
    IF ResolvesNonString(s) THEN <<"\"">> \o DoubleQuotedBody(s) \o <<"\"">>
    ELSE IF PlainForbidden(s) THEN <<"'">> \o SingleQuotedBody(s) \o <<"'">>
    ELSE s

RECURSIVE EntryLines(_, _)
\* One line per key, in the order keys lists them.
EntryLines(variables, keys) ==
    IF keys = <<>> THEN <<>>
    ELSE Indent \o Scalar(keys[1]) \o <<":", " ">> \o Scalar(variables[keys[1]]) \o <<LF>>
         \o EntryLines(variables, Tail(keys))

RECURSIVE SortedSeq(_)
\* The strings of a set in ascending order (the encoder sorts map keys).
SortedSeq(S) ==
    IF S = {} THEN <<>>
    ELSE LET least == CHOOSE x \in S : \A y \in S \ {x} : StrLess(x, y)
         IN  <<least>> \o SortedSeq(S \ {least})

\* yaml.Marshal(s): the unexported field encrypted is not written.
Marshal(store) ==
    kwVersion \o <<DigitChars[store.Version + 1], LF>> \o
    (IF DOMAIN store.Variables = {} THEN kwVariables \o <<" ", "{", "}", LF>>
     ELSE kwVariables \o <<LF>> \o EntryLines(store.Variables, SortedSeq(DOMAIN store.Variables)))

RECURSIVE SplitLines(_)
\* The lines of a document, without their line breaks.
SplitLines(doc) ==
    IF doc = <<>> THEN <<>>
    ELSE IF \E i \in 1..Len(doc) : doc[i] = LF
    THEN LET i == CHOOSE i \in 1..Len(doc) : doc[i] = LF /\ \A h \in 1..(i - 1) : doc[h] # LF
         IN  <<SubSeq(doc, 1, i - 1)>> \o SplitLines(Drop(doc, i))
    ELSE <<doc>>

RECURSIVE ScanSingle(_, _, _)
\* The rest of a single-quoted scalar from position i: [ok, val, next].
ScanSingle(t, i, val) ==
    IF i > Len(t) THEN [ok |-> FALSE, val |-> <<>>, next |-> i]
    ELSE IF t[i] = "'" /\ i < Len(t) /\ t[i + 1] = "'" THEN ScanSingle(t, i + 2, Append(val, "'"))
    ELSE IF t[i] = "'" THEN [ok |-> TRUE, val |-> val, next |-> i + 1]
    ELSE ScanSingle(t, i + 1, Append(val, t[i]))

RECURSIVE ScanDouble(_, _, _)
\* The rest of a double-quoted scalar from position i: [ok, val, next].
ScanDouble(t, i, val) ==
    IF i > Len(t) THEN [ok |-> FALSE, val |-> <<>>, next |-> i]
    ELSE IF t[i] = "\\" /\ i < Len(t) /\ t[i + 1] \in {"\"", "\\"}
    THEN ScanDouble(t, i + 2, Append(val, t[i + 1]))
    ELSE IF t[i] = "\\" THEN [ok |-> FALSE, val |-> <<>>, next |-> i]
    ELSE IF t[i] = "\"" THEN [ok |-> TRUE, val |-> val, next |-> i + 1]
    ELSE ScanDouble(t, i + 1, Append(val, t[i]))

\* The position of the first ": " of t, or of a ":" that ends t; 0 if none.
KeyEnd(t) ==
    LET ends(i) == t[i] = ":" /\ (i = Len(t) \/ t[i + 1] = " ")
    IN  IF \E i \in 1..Len(t) : ends(i)
        THEN CHOOSE i \in 1..Len(t) : ends(i) /\ \A h \in 1..(i - 1) : ~ends(h)
        ELSE 0

\* The key of a `key: value` line t: [ok, val, next], next the position
\* after the key.
ScanKey(t) ==
    IF t # <<>> /\ t[1] = "'" THEN ScanSingle(t, 2, <<>>)
    ELSE IF t # <<>> /\ t[1] = "\"" THEN ScanDouble(t, 2, <<>>)
    ELSE IF t = <<>> \/ t[1] \in Indicators \cup {" "} \/ KeyEnd(t) < 2
    THEN [ok |-> FALSE, val |-> <<>>, next |-> 1]
    ELSE [ok |-> TRUE, val |-> SubSeq(t, 1, KeyEnd(t) - 1), next |-> KeyEnd(t)]

\* The value v of a `key: value` line: [ok, val, next].
ScanValue(v) ==
    IF v = <<>> \/ v = <<"~">> THEN [ok |-> TRUE, val |-> <<>>, next |-> Len(v) + 1]
    ELSE IF v[1] = "'" THEN ScanSingle(v, 2, <<>>)
    ELSE IF v[1] = "\"" THEN ScanDouble(v, 2, <<>>)
    ELSE IF v[1] \in Indicators \/ KeyEnd(v) # 0
    THEN [ok |-> FALSE, val |-> <<>>, next |-> 1]
    ELSE [ok |-> TRUE, val |-> v, next |-> Len(v) + 1]

\* One `key: value` line of the mapping, its indentation removed: [ok, key, val].
ParseEntry(t) ==
    LET bad == [ok |-> FALSE, key |-> <<>>, val |-> <<>>]
    IN  Bind(ScanKey(t), LAMBDA k :
          Bind(Drop(t, k.next - 1), LAMBDA r :
            IF ~k.ok \/ r = <<>> \/ r[1] # ":" \/ (Len(r) >= 2 /\ r[2] # " ") THEN bad
            ELSE Bind(IF Len(r) >= 2 THEN Drop(r, 2) ELSE <<>>, LAMBDA v :
                   Bind(ScanValue(v), LAMBDA val :
                     IF ~val.ok \/ val.next # Len(v) + 1 THEN bad
                     ELSE [ok |-> TRUE, key |-> k.val, val |-> val.val]))))

RECURSIVE ParseLines(_, _, _, _)
\* The decoder over the lines of a document: acc is the Store decoded so
\* far, inMap whether the last top-level key was `variables` with the
\* mapping's entries following.
ParseLines(lines, i, acc, inMap) ==
    IF i > Len(lines) THEN acc
    ELSE LET line == lines[i]
             next(a, m) == ParseLines(lines, i + 1, a, m)
         IN  IF inMap /\ IsPrefixOf(Indent, line)
             THEN Bind(ParseEntry(Drop(line, Len(Indent))), LAMBDA e :
                    IF ~e.ok \/ (~acc.isNil /\ e.key \in DOMAIN acc.Variables)
                    THEN [acc EXCEPT !.err = TRUE]
                    ELSE Bind([acc EXCEPT !.Variables = Put(IF acc.isNil THEN <<>> ELSE @,
                                                            e.key, e.val),
                                          !.isNil = FALSE],
                              LAMBDA a : next(a, TRUE)))
             ELSE IF IsPrefixOf(kwVersion, line) /\ Len(line) = Len(kwVersion) + 1
                     /\ \E d \in 1..10 : line[Len(line)] = DigitChars[d]
             THEN Bind([acc EXCEPT !.Version =
                           (CHOOSE d \in 1..10 : line[Len(line)] = DigitChars[d]) - 1],
                       LAMBDA a : next(a, FALSE))
             ELSE IF line = kwVariables \o <<" ", "{", "}">>
             THEN Bind([acc EXCEPT !.Variables = <<>>, !.isNil = FALSE], LAMBDA a : next(a, FALSE))
             ELSE IF line = kwVariables
             THEN Bind([acc EXCEPT !.Variables = <<>>, !.isNil = TRUE], LAMBDA a : next(a, TRUE))
             ELSE [acc EXCEPT !.err = TRUE]

\* yaml.Unmarshal(yamlData, &s) into a zero Store: [err, Version, Variables,
\* isNil], isNil telling a nil map from an empty one.
Unmarshal(doc) ==
    Bind(SplitLines(doc), LAMBDA lines :
      ParseLines(lines, 1,
                 [err |-> FALSE, Version |-> 0, Variables |-> <<>>, isNil |-> TRUE], FALSE))

(***************************************************************************)
(* internal/crypto.  A byte is a record: c is the byte of an unencrypted   *)
(* text, or what AES-GCM made of it under a key and a nonce; the bytes of  *)
(* the authentication tag carry the plaintext they authenticate.           *)
(***************************************************************************)
saltSize == 16
nonceSize == 12
tagSize == 16

NoKey == <<<<>>, <<>>>>

\* An ordinary byte.
B(c) == [c |-> c, key |-> NoKey, nonce |-> <<>>, pt |-> <<>>]

\* The bytes of a text.
Bytes(text) == [i \in 1..Len(text) |-> B(text[i])]

\* Bytes read as text: an encrypted byte reads as some byte that is no
\* character of a document.
Text(data) == [i \in 1..Len(data) |-> IF data[i].key = NoKey THEN data[i].c ELSE "?"]

\* MagicBytes = []byte("VARNISH\x00")
MagicBytes == Bytes(<<"V", "A", "R", "N", "I", "S", "H", NUL>>)

\* byte(Version)
VersionByte == B("x01")

\* IsEncrypted with the length test left out.
IsEncryptedNoLength(data) == \A i \in 1..Len(MagicBytes) : i > Len(data) \/ data[i] = MagicBytes[i]

IsEncrypted(data) ==
    IF Len(data) < Len(MagicBytes) THEN FALSE
    ELSE \A i \in 1..Len(MagicBytes) : data[i] = MagicBytes[i]

\* GetPassword: [err, password] from the value of VARNISH_PASSWORD.
GetPassword(env) == [err |-> env = <<>>, password |-> env]

\* Argon2id: a key is determined by, and determines, password and salt.
DeriveKey(password, salt) == <<password, salt>>

\* gcm.Seal(nil, nonce, plaintext, nil): the ciphertext and its tag.
Seal(key, nonce, plaintext) ==
    [i \in 1..Len(plaintext) |-> [c |-> plaintext[i], key |-> key, nonce |-> nonce, pt |-> <<>>]]
    \o [i \in 1..tagSize |-> [c |-> "tag", key |-> key, nonce |-> nonce, pt |-> plaintext]]

\* gcm.Open without the check of the tag: the plaintext whatever the key.
OpenUnauthenticated(key, nonce, ciphertext) ==
    [err |-> Len(ciphertext) < tagSize,
     plaintext |-> IF Len(ciphertext) < tagSize THEN <<>>
                   ELSE ciphertext[Len(ciphertext)].pt]

\* gcm.Open checking the key and the nonce but not the bytes: it returns
\* what the ciphertext bytes decipher to.
OpenUnverified(key, nonce, ciphertext) ==
    LET n == Len(ciphertext) - tagSize
    IN  IF n >= 0 /\ ciphertext[Len(ciphertext)].key = key /\ ciphertext[Len(ciphertext)].nonce = nonce
        THEN [err |-> FALSE, plaintext |-> [i \in 1..n |-> ciphertext[i].c]]
        ELSE [err |-> TRUE, plaintext |-> <<>>]

\* gcm.Open(nil, nonce, ciphertext, nil): [err, plaintext]; it fails unless
\* the ciphertext is what Seal made under this key and nonce.
Open(key, nonce, ciphertext) ==
    LET n == Len(ciphertext) - tagSize
        plaintext == [i \in 1..n |-> ciphertext[i].c]
    IN  IF n >= 0 /\ ciphertext = Seal(key, nonce, plaintext)
        THEN [err |-> FALSE, plaintext |-> plaintext]
        ELSE [err |-> TRUE, plaintext |-> <<>>]

\* Encrypt writing the nonce before the salt.
EncryptNonceFirst(plaintext, password, salt, nonce) ==
    MagicBytes \o <<VersionByte>> \o Bytes(nonce) \o Bytes(salt)
    \o Seal(DeriveKey(password, salt), nonce, plaintext)

\* Encrypt with the salt and nonce rand.Read produced:
\* Magic | Version | Salt | Nonce | Ciphertext+Tag.
Encrypt(plaintext, password, salt, nonce) ==
    MagicBytes \o <<VersionByte>> \o Bytes(salt) \o Bytes(nonce)
    \o Seal(DeriveKey(password, salt), nonce, plaintext)

\* The errors of Decrypt, by their text.
ErrPasswordRequired == "VARNISH_PASSWORD environment variable not set"
ErrTooShort == "encrypted data too short"
ErrNoMagic == "invalid encrypted data: missing magic bytes"
ErrVersion == "unsupported encryption version"
ErrDecrypt == "decrypt: cipher: message authentication failed"

\* Decrypt with the check of the version before the checks of the length
\* and of the marker.
DecryptVersionFirst(data, password) ==
    LET fail(msg) == [err |-> TRUE, msg |-> msg, plaintext |-> <<>>]
        minSize == Len(MagicBytes) + 1 + saltSize + nonceSize + tagSize
        offset == Len(MagicBytes)
    IN  IF password = <<>> THEN fail(ErrPasswordRequired)
        ELSE IF Len(data) > offset /\ data[offset + 1] # VersionByte THEN fail(ErrVersion)
        ELSE IF Len(data) < minSize THEN fail(ErrTooShort)
        ELSE IF ~IsEncrypted(data) THEN fail(ErrNoMagic)
        ELSE Bind(Open(DeriveKey(password, Text(SubSeq(data, offset + 2, offset + 1 + saltSize))),
                       Text(SubSeq(data, offset + 2 + saltSize, offset + 1 + saltSize + nonceSize)),
                       Drop(data, offset + 1 + saltSize + nonceSize)),
                  LAMBDA o : IF o.err THEN fail(ErrDecrypt)
                             ELSE [err |-> FALSE, msg |-> "", plaintext |-> o.plaintext])

\* Decrypt: [err, msg, plaintext].
Decrypt(data, password) ==
    LET fail(msg) == [err |-> TRUE, msg |-> msg, plaintext |-> <<>>]
        minSize == Len(MagicBytes) + 1 + saltSize + nonceSize + tagSize
        offset == Len(MagicBytes)
        salt == Text(SubSeq(data, offset + 2, offset + 1 + saltSize))
        nonce == Text(SubSeq(data, offset + 2 + saltSize, offset + 1 + saltSize + nonceSize))
        ciphertext == Drop(data, offset + 1 + saltSize + nonceSize)
    IN  IF password = <<>> THEN fail(ErrPasswordRequired)
        ELSE IF Len(data) < minSize THEN fail(ErrTooShort)
        ELSE IF ~IsEncrypted(data) THEN fail(ErrNoMagic)
        ELSE IF data[offset + 1] # VersionByte THEN fail(ErrVersion)
        ELSE Bind(Open(DeriveKey(password, salt), nonce, ciphertext),
                  LAMBDA o : IF o.err THEN fail(ErrDecrypt)
                             ELSE [err |-> FALSE, msg |-> "", plaintext |-> o.plaintext])

(***************************************************************************)
(* internal/store: one Store in memory, the store file, and the password   *)
(* in the environment.                                                     *)
(***************************************************************************)
\* New()
New == [Version |-> 1, Variables |-> EmptyMap, encrypted |-> FALSE]

\* parseStoreData leaving the encrypted flag of the Store unset.
parseStoreDataFlagUnset(data, env) ==
    LET fail == [err |-> TRUE, store |-> <<>>, nilVariables |-> FALSE]
        parse(yamlData, isEncrypted) ==
            Bind(Unmarshal(yamlData), LAMBDA u :
              IF u.err THEN fail
              ELSE [err |-> FALSE, nilVariables |-> FALSE,
                    store |-> <<[Version |-> u.Version,
                                 Variables |-> IF u.isNil THEN EmptyMap ELSE u.Variables,
                                 encrypted |-> FALSE]>>])
    IN  IF IsEncrypted(data)
        THEN Bind(GetPassword(env), LAMBDA pw :
               IF pw.err THEN fail
               ELSE Bind(Decrypt(data, pw.password), LAMBDA dec :
                      IF dec.err THEN fail ELSE parse(dec.plaintext, TRUE)))
        ELSE parse(Text(data), FALSE)

\* parseStoreData: [err, store, nilVariables]; store is <<>> when it returns
\* nil, nilVariables tells whether the Store's map is nil.
parseStoreData(data, env) ==
    LET fail == [err |-> TRUE, store |-> <<>>, nilVariables |-> FALSE]
        parse(yamlData, isEncrypted) ==
            Bind(Unmarshal(yamlData), LAMBDA u :
              IF u.err THEN fail
              ELSE [err |-> FALSE, nilVariables |-> FALSE,
                    store |-> <<[Version |-> u.Version,
                                 Variables |-> IF u.isNil THEN EmptyMap ELSE u.Variables,
                                 encrypted |-> isEncrypted]>>])
    IN  IF IsEncrypted(data)
        THEN Bind(GetPassword(env), LAMBDA pw :
               IF pw.err THEN fail
               ELSE Bind(Decrypt(data, pw.password), LAMBDA dec :
                      IF dec.err THEN fail ELSE parse(dec.plaintext, TRUE)))
        ELSE parse(Text(data), FALSE)

\* The keys and values of the Store, the passwords, and what rand.Read can
\* return for the salt and the nonce.
KeySet == {<<"a">>, <<"1">>}

ValueSet == {<<>>, <<"a", ":", " ", "b">>}

Passwords == {<<"p", "w">>, <<"q">>}

Salts == {[i \in 1..saltSize |-> "s1"], [i \in 1..saltSize |-> "s2"]}

Nonces == {[i \in 1..nonceSize |-> "n1"], [i \in 1..nonceSize |-> "n2"]}

NoStoreFile == [exists |-> FALSE, data |-> <<>>]

\* The files found at the path before the first save: none, an empty one,
\* one shorter than the magic marker, one that is the marker alone, and
\* documents without variables.
InitialFiles ==
    {NoStoreFile} \cup
    {[exists |-> TRUE, data |-> d] :
        d \in {<<>>, SubSeq(MagicBytes, 1, Len(MagicBytes) - 1), MagicBytes,
               Bytes(kwVersion \o <<"1", LF>>),
               Bytes(kwVersion \o <<"1", LF>> \o kwVariables \o <<LF>>)}}

\* What a call returned: the fields a call does not return stay as here.
NoRet == [op |-> "", key |-> <<>>, val |-> <<>>, ok |-> FALSE, keys |-> <<>>, len |-> 0,
          err |-> FALSE, store |-> <<>>, nilVariables |-> FALSE]

InitStore ==
    /\ sStore = New
    /\ sLast = [k \in KeySet |-> <<"none">>]
    /\ sRet = <<>>
    /\ sFile \in InitialFiles
    /\ sEnv \in Passwords \cup {<<>>}
    /\ sSaved = <<>>
    /\ sLoaded = <<>>
    /\ MatchIdle
    /\ ResolverIdle
    /\ WriteIdle
    /\ CryptoIdle
    /\ ProjectIdle
    /\ NameIdle
    /\ InitIdle

\* s.Set(key, value) writing the Store to its file as well.
SetPersisting(key, value) ==
    /\ sStore' = [sStore EXCEPT !.Variables = Put(@, key, value)]
    /\ sLast' = [sLast EXCEPT ![key] = <<"set", value>>]
    /\ sRet' = <<>>
    /\ sFile' = [exists |-> TRUE, data |-> Bytes(Marshal(sStore'))]
    /\ UNCHANGED <<sEnv, sSaved, sLoaded, matchVars, resolverVars, writeVars, cryptoVars, projectVars, nameVars, initVars>>

\* s.Set(key, value)
Set(key, value) ==
    /\ sStore' = [sStore EXCEPT !.Variables = Put(@, key, value)]
    /\ sLast' = [sLast EXCEPT ![key] = <<"set", value>>]
    /\ sRet' = <<>>
    /\ UNCHANGED <<sFile, sEnv, sSaved, sLoaded, matchVars, resolverVars, writeVars, cryptoVars, projectVars, nameVars, initVars>>

\* s.Get(key)
Get(key) ==
    /\ sRet' = <<[NoRet EXCEPT !.op = "Get", !.key = key,
                               !.ok = key \in DOMAIN sStore.Variables,
                               !.val = IF key \in DOMAIN sStore.Variables
                                       THEN sStore.Variables[key] ELSE <<>>]>>
    /\ UNCHANGED <<sStore, sLast, sFile, sEnv, sSaved, sLoaded, matchVars, resolverVars, writeVars, cryptoVars, projectVars, nameVars, initVars>>

\* s.Delete(key) reporting whether the map still holds a key afterwards.
DeleteReportingRest(key) ==
    /\ sStore' = [sStore EXCEPT !.Variables = [k \in (DOMAIN @) \ {key} |-> @[k]]]
    /\ sLast' = [sLast EXCEPT ![key] = IF key \in DOMAIN sStore.Variables THEN <<"delete">> ELSE @]
    /\ sRet' = <<[NoRet EXCEPT !.op = "Delete", !.key = key,
                               !.ok = (DOMAIN sStore.Variables) \ {key} # {}]>>
    /\ UNCHANGED <<sFile, sEnv, sSaved, sLoaded, matchVars, resolverVars, writeVars, cryptoVars, projectVars, nameVars, initVars>>

\* s.Delete(key)
Delete(key) ==
    /\ sStore' = [sStore EXCEPT !.Variables = [k \in (DOMAIN @) \ {key} |-> @[k]]]
    /\ sLast' = [sLast EXCEPT ![key] = IF key \in DOMAIN sStore.Variables THEN <<"delete">> ELSE @]
    /\ sRet' = <<[NoRet EXCEPT !.op = "Delete", !.key = key,
                               !.ok = key \in DOMAIN sStore.Variables]>>
    /\ UNCHANGED <<sFile, sEnv, sSaved, sLoaded, matchVars, resolverVars, writeVars, cryptoVars, projectVars, nameVars, initVars>>

\* s.Keys(): the range over the map visits it in an order of Go's choosing.
Keys ==
    /\ \E ord \in Orders(DOMAIN sStore.Variables) :
          sRet' = <<[NoRet EXCEPT !.op = "Keys", !.keys = SortStrings(ord)]>>
    /\ UNCHANGED <<sStore, sLast, sFile, sEnv, sSaved, sLoaded, matchVars, resolverVars, writeVars, cryptoVars, projectVars, nameVars, initVars>>

\* s.Len()
StoreLen ==
    /\ sRet' = <<[NoRet EXCEPT !.op = "Len", !.len = Cardinality(DOMAIN sStore.Variables)]>>
    /\ UNCHANGED <<sStore, sLast, sFile, sEnv, sSaved, sLoaded, matchVars, resolverVars, writeVars, cryptoVars, projectVars, nameVars, initVars>>

NextStoreOps ==
    \/ \E key \in KeySet : \E value \in ValueSet : Set(key, value)
    \/ \E key \in KeySet : Get(key)
    \/ \E key \in KeySet : Delete(key)
    \/ Keys
    \/ StoreLen

\* Set, Get, Delete, Keys and Len called in any order on a Store made by New().
SpecStoreOps == InitStore /\ [][NextStoreOps]_vars

\* The bytes SaveTo hands to AtomicWrite with the encrypted flag ignored.
SaveDataPlain(store, password, salt, nonce) == Bytes(Marshal(store))

\* The bytes SaveTo hands to AtomicWrite: the document, or its envelope
\* when the Store's encrypted flag is set.
SaveData(store, password, salt, nonce) ==
    IF store.encrypted THEN Encrypt(Marshal(store), password, salt, nonce)
    ELSE Bytes(Marshal(store))

\* s.SaveTo(path); Save() does the same at the path StorePath() returns.
\* It returns an error, the file as it was, when the Store is encrypted and
\* no password is set, and when rand.Read or AtomicWrite fails.
SaveTo ==
    LET pw == GetPassword(sEnv)
    IN  /\ \/ /\ ~(sStore.encrypted /\ pw.err)
              /\ \E salt \in Salts : \E nonce \in Nonces :
                    sFile' = [exists |-> TRUE,
                              data |-> SaveData(sStore, pw.password, salt, nonce)]
              /\ sSaved' = <<[store |-> sStore,
                              password |-> IF sStore.encrypted THEN pw.password ELSE <<>>]>>
              /\ sRet' = <<[NoRet EXCEPT !.op = "SaveTo"]>>
           \/ /\ sRet' = <<[NoRet EXCEPT !.op = "SaveTo", !.err = TRUE]>>
              /\ UNCHANGED <<sFile, sSaved>>
        /\ UNCHANGED <<sStore, sLast, sEnv, sLoaded, matchVars, resolverVars, writeVars, cryptoVars, projectVars, nameVars, initVars>>

\* LoadFrom(path)
LoadFrom ==
    /\ sRet' = IF ~sFile.exists THEN <<[NoRet EXCEPT !.op = "LoadFrom", !.err = TRUE]>>
               ELSE Bind(parseStoreData(sFile.data, sEnv), LAMBDA r :
                      <<[NoRet EXCEPT !.op = "LoadFrom", !.err = r.err, !.store = r.store,
                                      !.nilVariables = r.nilVariables]>>)
    /\ UNCHANGED <<sStore, sLast, sFile, sEnv, sSaved, sLoaded, matchVars, resolverVars, writeVars, cryptoVars, projectVars, nameVars, initVars>>

\* Load() returning the read error for a file that does not exist.
LoadStrict ==
    /\ sRet' = IF ~sFile.exists THEN <<[NoRet EXCEPT !.op = "Load", !.err = TRUE]>>
               ELSE Bind(parseStoreData(sFile.data, sEnv), LAMBDA r :
                      <<[NoRet EXCEPT !.op = "Load", !.err = r.err, !.store = r.store,
                                      !.nilVariables = r.nilVariables]>>)
    /\ UNCHANGED <<sStore, sLast, sFile, sEnv, sSaved, sLoaded, matchVars, resolverVars, writeVars, cryptoVars, projectVars, nameVars, initVars>>

\* Load()
Load ==
    /\ sRet' = IF ~sFile.exists THEN <<[NoRet EXCEPT !.op = "Load", !.store = <<New>>]>>
               ELSE Bind(parseStoreData(sFile.data, sEnv), LAMBDA r :
                      <<[NoRet EXCEPT !.op = "Load", !.err = r.err, !.store = r.store,
                                      !.nilVariables = r.nilVariables]>>)
    /\ UNCHANGED <<sStore, sLast, sFile, sEnv, sSaved, sLoaded, matchVars, resolverVars, writeVars, cryptoVars, projectVars, nameVars, initVars>>

\* s.EnableEncryption() without the call of GetPassword.
EnableEncryptionUnchecked ==
    /\ sRet' = <<[NoRet EXCEPT !.op = "EnableEncryption"]>>
    /\ sStore' = [sStore EXCEPT !.encrypted = TRUE]
    /\ UNCHANGED <<sLast, sFile, sEnv, sSaved, sLoaded, matchVars, resolverVars, writeVars, cryptoVars, projectVars, nameVars, initVars>>

\* s.EnableEncryption()
EnableEncryption ==
    /\ IF GetPassword(sEnv).err
       THEN /\ sRet' = <<[NoRet EXCEPT !.op = "EnableEncryption", !.err = TRUE]>>
            /\ UNCHANGED sStore
       ELSE /\ sRet' = <<[NoRet EXCEPT !.op = "EnableEncryption"]>>
            /\ sStore' = [sStore EXCEPT !.encrypted = TRUE]
    /\ UNCHANGED <<sLast, sFile, sEnv, sSaved, sLoaded, matchVars, resolverVars, writeVars, cryptoVars, projectVars, nameVars, initVars>>

\* store.Remove(): the file is deleted; no error if there was none.
Remove ==
    /\ sFile' = NoStoreFile
    /\ sSaved' = <<>>
    /\ sRet' = <<[NoRet EXCEPT !.op = "Remove"]>>
    /\ UNCHANGED <<sStore, sLast, sEnv, sLoaded, matchVars, resolverVars, writeVars, cryptoVars, projectVars, nameVars, initVars>>

\* VARNISH_PASSWORD is set to another value, or unset, between two calls.
Setenv(value) ==
    /\ value # sEnv
    /\ sEnv' = value
    /\ sRet' = <<>>
    /\ UNCHANGED <<sStore, sLast, sFile, sSaved, sLoaded, matchVars, resolverVars, writeVars, cryptoVars, projectVars, nameVars, initVars>>

NextPersist ==
    \/ \E key \in KeySet : \E value \in ValueSet : Set(key, value)
    \/ \E key \in KeySet : Delete(key)
    \/ EnableEncryption
    \/ \E value \in Passwords \cup {<<>>} : Setenv(value)
    \/ SaveTo
    \/ LoadFrom
    \/ Load
    \/ Remove

\* A Store changed by Set and Delete, saved to and loaded from its file, in
\* any order, the password changing in between.
SpecPersist == InitStore /\ [][NextPersist]_vars

NextStoreFile ==
    \/ NextPersist
    \/ \E key \in KeySet : Get(key)
    \/ Keys
    \/ StoreLen

\* Every operation of the Store and of its file, in any order.
SpecStoreFile == InitStore /\ [][NextStoreFile]_vars

\* The start of an invocation: st, err := store.Load(), and st is the Store
\* the invocation works on.  When Load fails the invocation ends with the
\* error, and there is no Store until the next one.
Invoke ==
    /\ \E r \in {IF ~sFile.exists
                 THEN [err |-> FALSE, store |-> <<New>>, nilVariables |-> FALSE]
                 ELSE parseStoreData(sFile.data, sEnv)} :
          /\ sRet' = <<[NoRet EXCEPT !.op = "Load", !.err = r.err, !.store = r.store,
                                     !.nilVariables = r.nilVariables]>>
          /\ sLoaded' = r.store
          /\ sStore' = IF r.err THEN New ELSE r.store[1]
    /\ sLast' = [k \in KeySet |-> <<"none">>]
    /\ UNCHANGED <<sFile, sEnv, sSaved, matchVars, resolverVars, writeVars, cryptoVars, projectVars, nameVars, initVars>>

\* The keys the invocations set and delete.
InvocationKeys == {<<"a">>}

NextInvocations ==
    \/ Invoke
    \/ sLoaded # <<>> /\ \E key \in InvocationKeys : \E value \in ValueSet : Set(key, value)
    \/ sLoaded # <<>> /\ \E key \in InvocationKeys : Delete(key)
    \/ sLoaded # <<>> /\ EnableEncryption
    \/ sLoaded # <<>> /\ SaveTo
    \/ \E value \in Passwords \cup {<<>>} : Setenv(value)

\* Invocations one after the other, each loading the Store from the file,
\* changing it and saving it, the password changing in between.
SpecInvocations == InitStore /\ [][NextInvocations]_vars

(***************************************************************************)
(* config.AtomicWrite, and Store.Save which runs the same steps with       *)
(* PermSecure: processes that each write their data to one target path.    *)
(* A step of a process is one system call; a process can be killed         *)
(* between any two of them, and any system call can return an error.       *)
(***************************************************************************)
PermSecure == 384    \* 0600
PermConfig == 420    \* 0644

Target == "store.yaml"

\* The names os.CreateTemp can pick for a temporary file of the directory.
TmpFiles == {".tmp-1", ".tmp-2"}

Paths == {Target} \cup TmpFiles

NoFile == [exists |-> FALSE, data |-> <<>>, perm |-> 0]

Writers == {"A", "B"}

\* The Store each process saves.
PayloadStore(w) ==
    [New EXCEPT !.Variables =
        Put(EmptyMap, <<"a">>, IF w = "A" THEN <<>> ELSE <<"a", ":", " ", "b">>)]

\* A document as the PayloadLen pieces tmp.Write can hand to the kernel one
\* after the other.
Chunks(doc) ==
    [i \in 1..PayloadLen |->
        SubSeq(doc, ((i - 1) * Len(doc)) \div PayloadLen + 1, (i * Len(doc)) \div PayloadLen)]

\* The bytes pieces add up to.
RECURSIVE Flatten(_)
Flatten(pieces) ==
    IF pieces = <<>> THEN <<>> ELSE Head(pieces) \o Flatten(Tail(pieces))

\* The data argument of each process: the document of its Store.
Data(w) == Chunks(Marshal(PayloadStore(w)))

\* The content of the target before the writes, when it exists: the
\* document of an empty Store.
OldData == Chunks(Marshal(New))

InitWrite ==
    /\ wBefore \in {NoFile} \cup {[exists |-> TRUE, data |-> OldData, perm |-> p] :
                                    p \in {PermSecure, PermConfig}}
    /\ wFiles = [p \in Paths |-> IF p = Target THEN wBefore ELSE NoFile]
    /\ wPc = [w \in Writers |-> "start"]
    /\ wTmpName = [w \in Writers |-> ""]
    /\ wWritten = [w \in Writers |-> 0]
    /\ wPerm \in [Writers -> {PermSecure, PermConfig}]
    /\ wLastRename = ""
    /\ MatchIdle
    /\ ResolverIdle
    /\ StoreIdle
    /\ CryptoIdle
    /\ ProjectIdle
    /\ NameIdle
    /\ InitIdle

\* A temporary file under one fixed name, opened with O_TRUNC: the processes
\* share it.
CreateTempShared(w) ==
    /\ wPc[w] = "start"
    /\ wFiles' = [wFiles EXCEPT ![".tmp-1"] = [exists |-> TRUE, data |-> <<>>, perm |-> 384]]
    /\ wTmpName' = [wTmpName EXCEPT ![w] = ".tmp-1"]
    /\ wPc' = [wPc EXCEPT ![w] = "write"]
    /\ UNCHANGED <<wWritten, wPerm, wBefore, wLastRename, matchVars, resolverVars, storeVars, cryptoVars, projectVars, nameVars, initVars>>

\* tmp, err := os.CreateTemp(dir, ".tmp-"): a new file under a name no file
\* of the directory has (O_EXCL), empty, with mode 0600.
CreateTemp(w) ==
    /\ wPc[w] = "start"
    /\ \E name \in TmpFiles :
          /\ ~wFiles[name].exists
          /\ wFiles' = [wFiles EXCEPT ![name] = [exists |-> TRUE, data |-> <<>>, perm |-> 384]]
          /\ wTmpName' = [wTmpName EXCEPT ![w] = name]
    /\ wPc' = [wPc EXCEPT ![w] = "write"]
    /\ UNCHANGED <<wWritten, wPerm, wBefore, wLastRename, matchVars, resolverVars, storeVars, cryptoVars, projectVars, nameVars, initVars>>

\* os.CreateTemp returns an error: return err, nothing was created.
CreateTempFails(w) ==
    /\ wPc[w] = "start"
    /\ wPc' = [wPc EXCEPT ![w] = "failed"]
    /\ UNCHANGED <<wFiles, wTmpName, wWritten, wPerm, wBefore, wLastRename, matchVars, resolverVars, storeVars, cryptoVars, projectVars, nameVars, initVars>>

\* tmp.Write(data) with the bytes going to the target path itself.
WriteInPlace(w) ==
    /\ wPc[w] = "write"
    /\ wWritten[w] < PayloadLen
    /\ \E n \in 1..(PayloadLen - wWritten[w]) :
          /\ wFiles' = [wFiles EXCEPT ![Target] =
                           [exists |-> TRUE, perm |-> 384,
                            data |-> SubSeq(Data(w), 1, wWritten[w] + n)]]
          /\ wWritten' = [wWritten EXCEPT ![w] = @ + n]
          /\ wPc' = [wPc EXCEPT ![w] = IF wWritten[w] + n = PayloadLen THEN "sync" ELSE "write"]
    /\ UNCHANGED <<wTmpName, wPerm, wBefore, wLastRename, matchVars, resolverVars, storeVars, cryptoVars, projectVars, nameVars, initVars>>

\* tmp.Write(data): the kernel takes the bytes in one or more writes to the
\* temporary file.
Write(w) ==
    /\ wPc[w] = "write"
    /\ wWritten[w] < PayloadLen
    /\ \E n \in 1..(PayloadLen - wWritten[w]) :
          /\ wFiles' = [wFiles EXCEPT ![wTmpName[w]].data =
                           @ \o SubSeq(Data(w), wWritten[w] + 1, wWritten[w] + n)]
          /\ wWritten' = [wWritten EXCEPT ![w] = @ + n]
          /\ wPc' = [wPc EXCEPT ![w] = IF wWritten[w] + n = PayloadLen THEN "sync" ELSE "write"]
    /\ UNCHANGED <<wTmpName, wPerm, wBefore, wLastRename, matchVars, resolverVars, storeVars, cryptoVars, projectVars, nameVars, initVars>>

\* tmp.Sync()
Sync(w) ==
    /\ wPc[w] = "sync"
    /\ wPc' = [wPc EXCEPT ![w] = "close"]
    /\ UNCHANGED <<wFiles, wTmpName, wWritten, wPerm, wBefore, wLastRename, matchVars, resolverVars, storeVars, cryptoVars, projectVars, nameVars, initVars>>

\* tmp.Close()
Close(w) ==
    /\ wPc[w] = "close"
    /\ wPc' = [wPc EXCEPT ![w] = "chmod"]
    /\ UNCHANGED <<wFiles, wTmpName, wWritten, wPerm, wBefore, wLastRename, matchVars, resolverVars, storeVars, cryptoVars, projectVars, nameVars, initVars>>

\* The step of os.Chmod leaving the mode os.CreateTemp gave the file.
ChmodSkipped(w) ==
    /\ wPc[w] = "chmod"
    /\ wPc' = [wPc EXCEPT ![w] = "rename"]
    /\ UNCHANGED <<wFiles, wTmpName, wWritten, wPerm, wBefore, wLastRename, matchVars, resolverVars, storeVars, cryptoVars, projectVars, nameVars, initVars>>

\* os.Chmod(tmpName, perm)
Chmod(w) ==
    /\ wPc[w] = "chmod"
    /\ wFiles' = [wFiles EXCEPT ![wTmpName[w]].perm = wPerm[w]]
    /\ wPc' = [wPc EXCEPT ![w] = "rename"]
    /\ UNCHANGED <<wTmpName, wWritten, wPerm, wBefore, wLastRename, matchVars, resolverVars, storeVars, cryptoVars, projectVars, nameVars, initVars>>

\* os.Rename(tmpName, path); tmpName = ""; return nil.  rename(2) replaces
\* the target in one step.
Rename(w) ==
    /\ wPc[w] = "rename"
    /\ wFiles' = [wFiles EXCEPT ![Target] = wFiles[wTmpName[w]], ![wTmpName[w]] = NoFile]
    /\ wTmpName' = [wTmpName EXCEPT ![w] = ""]
    /\ wPc' = [wPc EXCEPT ![w] = "done"]
    /\ wLastRename' = w
    /\ UNCHANGED <<wWritten, wPerm, wBefore, matchVars, resolverVars, storeVars, cryptoVars, projectVars, nameVars, initVars>>

\* Write, Sync, Close, Chmod or Rename returns an error: return err, with
\* the deferred cleanup still to run.
StepFails(w) ==
    /\ wPc[w] \in {"write", "sync", "close", "chmod", "rename"}
    /\ wPc' = [wPc EXCEPT ![w] = "cleanup"]
    /\ UNCHANGED <<wFiles, wTmpName, wWritten, wPerm, wBefore, wLastRename, matchVars, resolverVars, storeVars, cryptoVars, projectVars, nameVars, initVars>>

\* The deferred function: if tmpName != "" { os.Remove(tmpName) }.  The
\* error of os.Remove is dropped: the file is gone, or it is still there.
Cleanup(w) ==
    /\ wPc[w] = "cleanup"
    /\ \/ wFiles' = [wFiles EXCEPT ![wTmpName[w]] = NoFile]
       \/ wFiles' = wFiles
    /\ wPc' = [wPc EXCEPT ![w] = "failed"]
    /\ UNCHANGED <<wTmpName, wWritten, wPerm, wBefore, wLastRename, matchVars, resolverVars, storeVars, cryptoVars, projectVars, nameVars, initVars>>

\* The process is killed: no further step of it runs, the deferred cleanup
\* included.
Kill(w) ==
    /\ wPc[w] \notin {"done", "failed", "killed"}
    /\ wPc' = [wPc EXCEPT ![w] = "killed"]
    /\ UNCHANGED <<wFiles, wTmpName, wWritten, wPerm, wBefore, wLastRename, matchVars, resolverVars, storeVars, cryptoVars, projectVars, nameVars, initVars>>

\* The process calls AtomicWrite again, with the same arguments, after a
\* call of it has returned.
Restart(w) ==
    /\ wPc[w] \in {"done", "failed"}
    /\ wPc' = [wPc EXCEPT ![w] = "start"]
    /\ wTmpName' = [wTmpName EXCEPT ![w] = ""]
    /\ wWritten' = [wWritten EXCEPT ![w] = 0]
    /\ UNCHANGED <<wFiles, wPerm, wBefore, wLastRename, matchVars, resolverVars, storeVars, cryptoVars, projectVars, nameVars, initVars>>

NextWrite ==
    \E w \in Writers :
        \/ CreateTemp(w)
        \/ CreateTempFails(w)
        \/ Write(w)
        \/ Sync(w)
        \/ Close(w)
        \/ Chmod(w)
        \/ Rename(w)
        \/ StepFails(w)
        \/ Cleanup(w)
        \/ Kill(w)
        \/ Restart(w)

\* Two processes running AtomicWrite on the same path, once or again and
\* again, in any interleaving.
SpecWrite == InitWrite /\ [][NextWrite]_vars

(***************************************************************************)
(* internal/crypto called directly: Encrypt on one plaintext and password, *)
(* once or twice, and Decrypt on what Encrypt returned, on an edited copy  *)
(* of it, under any password.                                              *)
(***************************************************************************)
MaxPlainLen == 2

\* The plaintexts handed to Encrypt: every length up to MaxPlainLen, the
\* empty one included.
Plaintexts == SeqsUpTo({"a"}, MaxPlainLen)

\* The calls of Encrypt in one run.
MaxEncrypts == 2

\* A byte with another value than b has.
Flipped(b) == [b EXCEPT !.c = "flipped"]

\* The lengths an input of Decrypt is cut to: around the marker and the
\* minimum size.
CutLengths(data) ==
    {n \in {0, Len(MagicBytes) - 1, Len(MagicBytes), Len(MagicBytes) + 1,
            Len(MagicBytes) + 1 + saltSize + nonceSize + tagSize - 1,
            Len(data) - 1} : n >= 0 /\ n < Len(data)}

InitCrypto ==
    /\ cPlaintext \in Plaintexts
    /\ cPassword \in Passwords \cup {<<>>}
    /\ cDrawn = {}
    /\ cBlobs = <<>>
    /\ cData = <<>>
    /\ cRet = <<>>
    /\ MatchIdle
    /\ ResolverIdle
    /\ WriteIdle
    /\ StoreIdle
    /\ ProjectIdle
    /\ NameIdle
    /\ InitIdle

\* Encrypt(plaintext, password) with rand.Read returning bytes it has
\* returned before.
CallEncryptRepeating ==
    /\ Len(cBlobs) < MaxEncrypts
    /\ \E salt \in Salts : \E nonce \in Nonces :
          /\ (cDrawn # {}) => {salt, nonce} \subseteq cDrawn
          /\ cDrawn' = cDrawn \cup {salt, nonce}
          /\ cBlobs' = Append(cBlobs, Encrypt(cPlaintext, cPassword, salt, nonce))
    /\ UNCHANGED <<cPlaintext, cPassword, cData, cRet, matchVars, resolverVars, writeVars, storeVars, projectVars, nameVars, initVars>>

\* Encrypt(plaintext, password): rand.Read, a cryptographic generator, gives
\* a salt and a nonce it has not given before.
CallEncrypt ==
    /\ Len(cBlobs) < MaxEncrypts
    /\ \E salt \in Salts \ cDrawn : \E nonce \in Nonces \ cDrawn :
          /\ cDrawn' = cDrawn \cup {salt, nonce}
          /\ cBlobs' = Append(cBlobs, Encrypt(cPlaintext, cPassword, salt, nonce))
    /\ UNCHANGED <<cPlaintext, cPassword, cData, cRet, matchVars, resolverVars, writeVars, storeVars, projectVars, nameVars, initVars>>

\* The caller takes what the i-th call of Encrypt returned.
Take(i) ==
    /\ i \in 1..Len(cBlobs)
    /\ cData' = <<[bytes |-> cBlobs[i], of |-> i, flip |-> 0, cut |-> FALSE]>>
    /\ cRet' = <<>>
    /\ UNCHANGED <<cPlaintext, cPassword, cDrawn, cBlobs, matchVars, resolverVars, writeVars, storeVars, projectVars, nameVars, initVars>>

\* One byte of the data is changed.
Flip(i) ==
    /\ cData # <<>> /\ cData[1].flip = 0 /\ ~cData[1].cut
    /\ i \in 1..Len(cData[1].bytes)
    /\ cData' = <<[cData[1] EXCEPT !.bytes[i] = Flipped(@), !.flip = i]>>
    /\ cRet' = <<>>
    /\ UNCHANGED <<cPlaintext, cPassword, cDrawn, cBlobs, matchVars, resolverVars, writeVars, storeVars, projectVars, nameVars, initVars>>

\* The data loses its end (data with a changed byte: when the byte is one
\* of the marker or the version).
Cut(n) ==
    /\ cData # <<>> /\ ~cData[1].cut /\ cData[1].flip <= Len(MagicBytes) + 1
    /\ n \in CutLengths(cData[1].bytes)
    /\ cData' = <<[cData[1] EXCEPT !.bytes = SubSeq(@, 1, n), !.cut = TRUE]>>
    /\ cRet' = <<>>
    /\ UNCHANGED <<cPlaintext, cPassword, cDrawn, cBlobs, matchVars, resolverVars, writeVars, storeVars, projectVars, nameVars, initVars>>

\* Decrypt(data, password)
CallDecrypt(password) ==
    /\ cData # <<>>
    /\ cRet' = Bind(Decrypt(cData[1].bytes, password), LAMBDA r :
                 <<[password |-> password, err |-> r.err, msg |-> r.msg,
                    plaintext |-> r.plaintext]>>)
    /\ UNCHANGED <<cPlaintext, cPassword, cDrawn, cBlobs, cData, matchVars, resolverVars, writeVars, storeVars, projectVars, nameVars, initVars>>

NextCrypto ==
    \/ CallEncrypt
    \/ \E i \in 1..MaxEncrypts : Take(i)
    \/ \E i \in 1..(Len(MagicBytes) + 1 + saltSize + nonceSize + tagSize + MaxPlainLen) : Flip(i)
    \/ \E n \in 0..(Len(MagicBytes) + saltSize + nonceSize + tagSize + MaxPlainLen) : Cut(n)
    \/ \E password \in Passwords \cup {<<>>} : CallDecrypt(password)

SpecCrypto == InitCrypto /\ [][NextCrypto]_vars

(***************************************************************************)
(* internal/domain: the Project Configuration made by NewProjectConfig or  *)
(* read from a file by LoadProjectConfigFrom.  A collection that can be    *)
(* nil is a record [isNil, val].                                           *)
(***************************************************************************)
kwProject == <<"p", "r", "o", "j", "e", "c", "t", ":", " ">>

\* The yaml tags of the four collections, with their colon.
CollTag(name) ==
    CASE name = "Include" -> <<"i", "n", "c", "l", "u", "d", "e", ":">>
      [] name = "Overrides" -> <<"o", "v", "e", "r", "r", "i", "d", "e", "s", ":">>
      [] name = "Mappings" -> <<"m", "a", "p", "p", "i", "n", "g", "s", ":">>
      [] name = "Computed" -> <<"c", "o", "m", "p", "u", "t", "e", "d", ":">>

CollNames == <<"Include", "Overrides", "Mappings", "Computed">>

\* The empty value of a collection: []string{} or make(map[string]string).
EmptyColl(name) == [isNil |-> FALSE, val |-> <<>>]

NilColl == [isNil |-> TRUE, val |-> <<>>]

\* The ways a document can give a collection: not at all, with no value
\* (null), as the empty flow collection, or with one entry.
Forms == {"absent", "null", "empty", "one"}

\* The lines a document has for the collection name in the form given.
CollLines(name, form) ==
    CASE form = "absent" -> <<>>
      [] form = "null" -> CollTag(name) \o <<LF>>
      [] form = "empty" -> CollTag(name) \o (IF name = "Include" THEN <<" ", "[", "]", LF>>
                                            ELSE <<" ", "{", "}", LF>>)
      [] form = "one" -> CollTag(name) \o <<LF>> \o Indent
                         \o (IF name = "Include" THEN <<"-", " ", "a", LF>>
                             ELSE <<"a", ":", " ", "b", LF>>)

\* A configuration file: version, project, and the collections in the
\* forms given.
ProjectDoc(forms) ==
    kwVersion \o <<"1", LF>> \o kwProject \o <<"p", LF>>
    \o CollLines("Include", forms[1]) \o CollLines("Overrides", forms[2])
    \o CollLines("Mappings", forms[3]) \o CollLines("Computed", forms[4])

\* The files read: every document above, one that is no mapping, and an
\* empty one.
ProjectDocs == {ProjectDoc(f) : f \in [1..4 -> Forms]} \cup {<<"-", " ", "a", LF>>, <<>>}

\* The zero value of ProjectConfig, with the decoder's error flag.
ZeroProject ==
    [err |-> FALSE, Version |-> 0, Project |-> <<>>,
     Include |-> NilColl, Overrides |-> NilColl, Mappings |-> NilColl, Computed |-> NilColl]

\* The collection whose tag begins the line, "" if none does.
TagOf(line) ==
    IF \E i \in 1..4 : IsPrefixOf(CollTag(CollNames[i]), line)
    THEN CollNames[CHOOSE i \in 1..4 : IsPrefixOf(CollTag(CollNames[i]), line)]
    ELSE ""

\* acc with the collection name set to c.
WithColl(acc, name, c) ==
    CASE name = "Include" -> [acc EXCEPT !.Include = c]
      [] name = "Overrides" -> [acc EXCEPT !.Overrides = c]
      [] name = "Mappings" -> [acc EXCEPT !.Mappings = c]
      [] name = "Computed" -> [acc EXCEPT !.Computed = c]

CollOf(acc, name) ==
    CASE name = "Include" -> acc.Include
      [] name = "Overrides" -> acc.Overrides
      [] name = "Mappings" -> acc.Mappings
      [] name = "Computed" -> acc.Computed

RECURSIVE ParseProjectLines(_, _, _, _)
\* The decoder over the lines of a configuration file: acc is the
\* ProjectConfig decoded so far, cur the collection whose entries follow
\* ("" if none).
ParseProjectLines(lines, i, acc, cur) ==
    IF i > Len(lines) THEN acc
    ELSE LET line == lines[i]
             next(a, c) == ParseProjectLines(lines, i + 1, a, c)
             fail == [acc EXCEPT !.err = TRUE]
         IN  IF cur # "" /\ IsPrefixOf(Indent, line)
             THEN Bind(Drop(line, Len(Indent)), LAMBDA t :
                    IF cur = "Include"
                    THEN IF IsPrefixOf(<<"-", " ">>, t) /\ Len(t) > 2
                         THEN Bind(WithColl(acc, cur, [isNil |-> FALSE,
                                                       val |-> Append(acc.Include.val, Drop(t, 2))]),
                                   LAMBDA a : next(a, cur))
                         ELSE fail
                    ELSE Bind(ParseEntry(t), LAMBDA e :
                           IF ~e.ok \/ e.key \in DOMAIN CollOf(acc, cur).val THEN fail
                           ELSE Bind(WithColl(acc, cur, [isNil |-> FALSE,
                                                         val |-> Put(CollOf(acc, cur).val, e.key, e.val)]),
                                     LAMBDA a : next(a, cur))))
             ELSE IF line = kwVersion \o <<"1">>
             THEN Bind([acc EXCEPT !.Version = 1], LAMBDA a : next(a, ""))
             ELSE IF IsPrefixOf(kwProject, line) /\ Len(line) > Len(kwProject)
             THEN Bind([acc EXCEPT !.Project = Drop(line, Len(kwProject))], LAMBDA a : next(a, ""))
             ELSE Bind(TagOf(line), LAMBDA name :
                    IF name = "" THEN fail
                    ELSE Bind(Drop(line, Len(CollTag(name))), LAMBDA rest :
                           IF rest = <<>>
                           THEN Bind(WithColl(acc, name, NilColl), LAMBDA a : next(a, name))
                           ELSE IF rest = (IF name = "Include" THEN <<" ", "[", "]">>
                                           ELSE <<" ", "{", "}">>)
                           THEN Bind(WithColl(acc, name, EmptyColl(name)), LAMBDA a : next(a, ""))
                           ELSE fail))

\* yaml.Unmarshal(data, &cfg) into a zero ProjectConfig.
UnmarshalProject(doc) ==
    Bind(SplitLines(doc), LAMBDA lines : ParseProjectLines(lines, 1, ZeroProject, ""))

\* A collection made non-nil if it is nil.
Initialized(c) == IF c.isNil THEN [isNil |-> FALSE, val |-> <<>>] ELSE c

NoProjectRet == [op |-> "", err |-> FALSE, cfg |-> <<>>]

InitProject ==
    /\ pFile \in {<<>>} \cup {<<d>> : d \in ProjectDocs}
    /\ pRet = <<>>
    /\ MatchIdle
    /\ ResolverIdle
    /\ WriteIdle
    /\ StoreIdle
    /\ CryptoIdle
    /\ NameIdle
    /\ InitIdle

\* NewProjectConfig()
NewProjectConfig ==
    /\ pRet' = <<[NoProjectRet EXCEPT !.op = "NewProjectConfig", !.cfg =
                    <<[Version |-> 1, Project |-> <<>>,
                       Include |-> EmptyColl("Include"), Overrides |-> EmptyColl("Overrides"),
                       Mappings |-> EmptyColl("Mappings"), Computed |-> EmptyColl("Computed")]>>]>>
    /\ UNCHANGED <<pFile, matchVars, resolverVars, writeVars, storeVars, cryptoVars, nameVars, initVars>>

\* LoadProjectConfigFrom(path)
LoadProjectConfigFrom ==
    /\ pRet' = IF pFile = <<>>
               THEN <<[NoProjectRet EXCEPT !.op = "LoadProjectConfigFrom", !.err = TRUE]>>
               ELSE Bind(UnmarshalProject(pFile[1]), LAMBDA cfg :
                      IF cfg.err
                      THEN <<[NoProjectRet EXCEPT !.op = "LoadProjectConfigFrom", !.err = TRUE]>>
                      ELSE <<[NoProjectRet EXCEPT !.op = "LoadProjectConfigFrom", !.cfg =
                                <<[Version |-> cfg.Version, Project |-> cfg.Project,
                                   Include |-> cfg.Include,
                                   Overrides |-> Initialized(cfg.Overrides),
                                   Mappings |-> Initialized(cfg.Mappings),
                                   Computed |-> Initialized(cfg.Computed)]>>]>>)
    /\ UNCHANGED <<pFile, matchVars, resolverVars, writeVars, storeVars, cryptoVars, nameVars, initVars>>

NextProject ==
    \/ NewProjectConfig
    \/ LoadProjectConfigFrom

SpecProject == InitProject /\ [][NextProject]_vars

(***************************************************************************)
(* internal/project: the names of the variables of an env file and the     *)
(* keys made from them, and the Resolver's way back.                       *)
(***************************************************************************)
MaxNameLen == 3

NameChars == {"A", "a", "_", "1"}

IsLetter(c) == c \in {"A", "B", "P", "a", "b", "p"}

IsDigit(c) == c \in {"0", "1"}

\* isValidEnvName(s)
isValidEnvName(s) ==
    /\ s # <<>>
    /\ \A i \in 1..Len(s) :
         IF i = 1 THEN IsLetter(s[i]) \/ s[i] = "_"
         ELSE IsLetter(s[i]) \/ IsDigit(s[i]) \/ s[i] = "_"

\* unicode.ToLower on the characters of the model.
LowerChar(c) ==
    CASE c = "A" -> "a" [] c = "B" -> "b" [] c = "P" -> "p"
      [] OTHER -> c

\* strings.ToLower(s)
ToLower(s) == [i \in 1..Len(s) |-> LowerChar(s[i])]

RECURSIVE Split(_, _)
\* strings.Split(s, sep) for a separator of one character.
Split(s, sep) ==
    IF ~Contains(s, sep) THEN <<s>>
    ELSE LET i == CHOOSE j \in 1..Len(s) : s[j] = sep /\ \A k \in 1..(j - 1) : s[k] # sep
         IN  <<SubSeq(s, 1, i - 1)>> \o Split(Drop(s, i), sep)

RECURSIVE Join(_, _)
\* strings.Join(parts, sep)
Join(parts, sep) ==
    IF parts = <<>> THEN <<>>
    ELSE IF Len(parts) = 1 THEN parts[1]
    ELSE parts[1] \o <<sep>> \o Join(Tail(parts), sep)

\* envNameToKey(name)
envNameToKey(name) ==
    LET parts == Split(name, "_")
    IN  Join([i \in 1..Len(parts) |-> ToLower(parts[i])], ".")

\* The project of a Resolver made from GenerateConfig: no mappings.
NoMappings == [Mappings |-> EmptyMap]

InitName ==
    /\ nName \in SeqsUpTo(NameChars, MaxNameLen)
    /\ nKey = <<>>
    /\ nBack = <<>>
    /\ nAgain = <<>>
    /\ MatchIdle
    /\ ResolverIdle
    /\ WriteIdle
    /\ StoreIdle
    /\ CryptoIdle
    /\ ProjectIdle
    /\ InitIdle

\* parseLine: the key of a line whose name is valid.
CallEnvNameToKey ==
    /\ nKey = <<>>
    /\ isValidEnvName(nName)
    /\ nKey' = <<envNameToKey(nName)>>
    /\ UNCHANGED <<nName, nBack, nAgain, matchVars, resolverVars, writeVars, storeVars,
                   cryptoVars, projectVars, initVars>>

\* r.keyToEnvName(key) for the key of the line.
CallKeyToEnvName ==
    /\ nKey # <<>>
    /\ nBack = <<>>
    /\ nBack' = <<keyToEnvName(NoMappings, nKey[1])>>
    /\ UNCHANGED <<nName, nKey, nAgain, matchVars, resolverVars, writeVars, storeVars,
                   cryptoVars, projectVars, initVars>>

\* envNameToKey of the name the Resolver gave.
CallEnvNameToKeyAgain ==
    /\ nBack # <<>>
    /\ nAgain = <<>>
    /\ nAgain' = <<envNameToKey(nBack[1])>>
    /\ UNCHANGED <<nName, nKey, nBack, matchVars, resolverVars, writeVars, storeVars,
                   cryptoVars, projectVars, initVars>>

NextName ==
    \/ CallEnvNameToKey
    \/ CallKeyToEnvName
    \/ CallEnvNameToKeyAgain

SpecName == InitName /\ [][NextName]_vars

(***************************************************************************)
(* internal/project and internal/cli: the variables of an env file and     *)
(* `varnish init`, which imports them into the Store.                      *)
(***************************************************************************)
MaxLines == 2

\* strings.TrimSpace(s) for the space character.
RECURSIVE TrimSpace(_)
TrimSpace(s) ==
    IF s = <<>> THEN s
    ELSE IF s[1] = " " THEN TrimSpace(Tail(s))
    ELSE IF s[Len(s)] = " " THEN TrimSpace(SubSeq(s, 1, Len(s) - 1))
    ELSE s

\* strings.TrimPrefix(s, prefix)
TrimPrefix(s, prefix) == IF IsPrefixOf(prefix, s) THEN Drop(s, Len(prefix)) ELSE s

\* strings.Index(s, c) + 1 for a character c: 0 if s has no c.
Index(s, c) ==
    IF ~Contains(s, c) THEN 0
    ELSE CHOOSE j \in 1..Len(s) : s[j] = c /\ \A k \in 1..(j - 1) : s[k] # c

\* The index of the last c in s: 0 if s has no c.
LastIndex(s, c) ==
    IF ~Contains(s, c) THEN 0
    ELSE CHOOSE j \in 1..Len(s) : s[j] = c /\ \A k \in (j + 1)..Len(s) : s[k] # c

\* trimQuotes(s)
trimQuotes(s) ==
    IF /\ Len(s) >= 2
       /\ \/ s[1] = "\"" /\ s[Len(s)] = "\""
          \/ s[1] = "'" /\ s[Len(s)] = "'"
    THEN SubSeq(s, 2, Len(s) - 1)
    ELSE s

\* extractDefault(s): [ok, def].  The expression ^\$\{[^}]*:?-([^}]*)\}$
\* matches "${", a body without "}" that has a "-", and "}"; its first
\* star is greedy, so the group is what follows the last "-".
extractDefault(s) ==
    LET body == SubSeq(s, 3, Len(s) - 1)
    IN  IF /\ Len(s) >= 4
           /\ s[1] = "$" /\ s[2] = "{" /\ s[Len(s)] = "}"
           /\ ~Contains(body, "}")
           /\ Contains(body, "-")
        THEN [ok |-> TRUE, def |-> Drop(body, LastIndex(body, "-"))]
        ELSE [ok |-> FALSE, def |-> <<>>]

kwExport == <<"e", "x", "p", "o", "r", "t", " ">>

\* parseLine(line): [ok, v] with v the ExampleVar.
parseLine(line0) ==
    LET line == TrimPrefix(line0, kwExport)
        idx == Index(line, "=")
        envName == TrimSpace(SubSeq(line, 1, idx - 1))
        value == trimQuotes(TrimSpace(Drop(line, idx)))
        def == extractDefault(value)
        none == [EnvName |-> <<>>, Key |-> <<>>, Default |-> <<>>, HasValue |-> FALSE]
    IN  IF idx = 0 THEN [ok |-> FALSE, v |-> none]
        ELSE IF ~isValidEnvName(envName) THEN [ok |-> FALSE, v |-> none]
        ELSE [ok |-> TRUE,
              v |-> [EnvName |-> envName, Key |-> envNameToKey(envName),
                     Default |-> IF def.ok THEN def.def
                                 ELSE IF ~IsPrefixOf(<<"$", "{">>, value) THEN value
                                 ELSE <<>>,
                     HasValue |-> IF def.ok THEN def.def # <<>>
                                  ELSE IF ~IsPrefixOf(<<"$", "{">>, value) THEN value # <<>>
                                  ELSE FALSE]]

RECURSIVE ScanEnv(_, _, _, _)
\* The loop of ParseExampleEnv over the lines of the file.
ScanEnv(lines, i, evars, seen) ==
    IF i > Len(lines) THEN evars
    ELSE Bind(TrimSpace(lines[i]), LAMBDA line :
           IF line = <<>> \/ IsPrefixOf(<<"#">>, line) THEN ScanEnv(lines, i + 1, evars, seen)
           ELSE Bind(parseLine(line), LAMBDA r :
                  IF ~r.ok \/ r.v.EnvName \in seen THEN ScanEnv(lines, i + 1, evars, seen)
                  ELSE ScanEnv(lines, i + 1, Append(evars, r.v), seen \cup {r.v.EnvName})))

\* ParseExampleEnv(path) for a file with the lines given.
ParseExampleEnv(lines) == ScanEnv(lines, 1, <<>>, {})

RECURSIVE BuildInclude(_, _, _, _)
\* The second loop of GenerateProjectConfig.
BuildInclude(evars, i, include, usedPrefixes) ==
    IF i > Len(evars) THEN include
    ELSE Bind(Split(evars[i].Key, "."), LAMBDA parts :
           LET prefix == parts[1]
               prefixCount == Cardinality({j \in 1..Len(evars) :
                                  /\ Len(Split(evars[j].Key, ".")) > 1
                                  /\ Split(evars[j].Key, ".")[1] = prefix})
           IN  IF Len(parts) > 1
               THEN IF prefixCount >= 2 /\ prefix \notin usedPrefixes
                    THEN BuildInclude(evars, i + 1, Append(include, prefix \o <<".", "*">>),
                                      usedPrefixes \cup {prefix})
                    ELSE IF prefixCount < 2
                    THEN BuildInclude(evars, i + 1, Append(include, evars[i].Key), usedPrefixes)
                    ELSE BuildInclude(evars, i + 1, include, usedPrefixes)
               ELSE BuildInclude(evars, i + 1, Append(include, evars[i].Key), usedPrefixes))

\* GenerateProjectConfig(evars): the include list of the configuration.
GenerateProjectConfig(evars) == BuildInclude(evars, 1, <<>>, {})

\* The project of the command, and projectName + ".".
ProjectName == <<"p">>

ProjectPrefix == ProjectName \o <<".">>

WithoutKey(variables, key) == [k \in (DOMAIN variables) \ {key} |-> variables[k]]

RECURSIVE ImportVars(_, _, _, _)
\* The loop of runInit that sets the variables of the file: [st, added].
ImportVars(evars, i, st, added) ==
    IF i > Len(evars) THEN [st |-> st, added |-> added, removed |-> 0]
    ELSE Bind(ProjectPrefix \o evars[i].Key, LAMBDA storeKey :
           IF evars[i].HasValue
           THEN Bind(Put(st, storeKey, evars[i].Default), LAMBDA t :
                  ImportVars(evars, i + 1, t, added + 1))
           ELSE IF storeKey \notin DOMAIN st
           THEN Bind(Put(st, storeKey, <<>>), LAMBDA t :
                  ImportVars(evars, i + 1, t, added + 1))
           ELSE ImportVars(evars, i + 1, st, added))

RECURSIVE ImportVarsDeleting(_, _, _, _, _, _)
\* The same loop in init.go, which deletes a variable without a value when
\* --sync is given: [st, added, removed].
ImportVarsDeleting(evars, i, st, added, removed, sync) ==
    IF i > Len(evars) THEN [st |-> st, added |-> added, removed |-> removed]
    ELSE Bind(ProjectPrefix \o evars[i].Key, LAMBDA storeKey :
           IF evars[i].HasValue
           THEN Bind(Put(st, storeKey, evars[i].Default), LAMBDA t :
                  ImportVarsDeleting(evars, i + 1, t, added + 1, removed, sync))
           ELSE IF sync /\ storeKey \in DOMAIN st
           THEN Bind(WithoutKey(st, storeKey), LAMBDA t :
                  ImportVarsDeleting(evars, i + 1, t, added, removed + 1, sync))
           ELSE ImportVarsDeleting(evars, i + 1, st, added, removed, sync))

\* shouldExist: the Store keys of the variables of the file.
ShouldExist(evars) == {ProjectPrefix \o evars[i].Key : i \in 1..Len(evars)}

\* The --sync loop: every key of the project that the file does not name
\* is deleted.
SyncStore(r, evars, sync) ==
    IF ~sync THEN r
    ELSE LET stale == {k \in DOMAIN r.st : IsPrefixOf(ProjectPrefix, k) /\ k \notin ShouldExist(evars)}
         IN  [r EXCEPT !.st = [k \in (DOMAIN r.st) \ stale |-> r.st[k]],
                       !.removed = @ + Cardinality(stale)]

\* The names and values of the lines of the env files, and the lines.
EnvNames == {<<"A">>, <<"a">>, <<"B", "_", "A">>}

ValueTexts == {<<>>, <<"x">>, <<"'", "y", "'">>, <<"$", "{", "A", "}">>,
               <<"$", "{", "A", ":", "-", "x", "}">>}

EnvLines ==
    {n \o <<"=">> \o v : n \in EnvNames, v \in ValueTexts}
    \cup {<<"#", "A", "=", "x">>, <<"1", "=", "x">>, kwExport \o <<"A", " ", "=", " ", "x">>}

\* The Stores the command finds: a key of the project that a file can
\* name, one that no file names, and a key of another project.
StoresBefore ==
    {[k \in S |-> <<"o">>] : S \in SUBSET {ProjectPrefix \o <<"a">>, ProjectPrefix \o <<"z">>,
                                           <<"q", ".", "a">>}}

NoInitRet == [op |-> "", sync |-> FALSE, noImport |-> FALSE, err |-> FALSE,
              vars |-> <<>>, include |-> <<>>]

InitInit ==
    /\ iEnvFile \in SeqsUpTo(EnvLines, MaxLines)
    /\ iBefore \in StoresBefore
    /\ iStore = iBefore
    /\ iRet = <<>>
    /\ MatchIdle
    /\ ResolverIdle
    /\ WriteIdle
    /\ StoreIdle
    /\ CryptoIdle
    /\ ProjectIdle
    /\ NameIdle

\* What the command does to the Store: the variables after store.Load(),
\* the two loops and st.Save(), which is called when a loop changed it.
Imported(r0, evars, sync, noImport) ==
    IF noImport \/ evars = <<>> THEN iStore
    ELSE Bind(SyncStore(r0, evars, sync), LAMBDA r :
           IF r.added > 0 \/ r.removed > 0 THEN r.st ELSE iStore)

\* runInit (part_003) with --project p and the flags given, --encrypt not
\* given: the file is parsed, the configuration generated and saved, the
\* variables imported.  It returns an error, the Store as it was, when
\* store.Load or st.Save fails.
runInit(sync, noImport) ==
    /\ iRet = <<>>
    /\ \E evars \in {ParseExampleEnv(iEnvFile)} :
         \/ /\ iStore' = Imported(ImportVars(evars, 1, iStore, 0), evars, sync, noImport)
            /\ iRet' = <<[NoInitRet EXCEPT !.op = "runInit", !.sync = sync, !.noImport = noImport,
                                           !.vars = evars,
                                           !.include = GenerateProjectConfig(evars)]>>
         \/ /\ ~noImport /\ evars # <<>>
            /\ iStore' = iStore
            /\ iRet' = <<[NoInitRet EXCEPT !.op = "runInit", !.sync = sync, !.noImport = noImport,
                                           !.err = TRUE, !.vars = evars,
                                           !.include = GenerateProjectConfig(evars)]>>
    /\ UNCHANGED <<iEnvFile, iBefore, matchVars, resolverVars, writeVars, storeVars, cryptoVars,
                   projectVars, nameVars>>

\* runInit (init.go) with --project p and the flags given.
runInitDeleting(sync, noImport) ==
    /\ iRet = <<>>
    /\ \E evars \in {ParseExampleEnv(iEnvFile)} :
         \/ /\ iStore' = Imported(ImportVarsDeleting(evars, 1, iStore, 0, 0, sync),
                                  evars, sync, noImport)
            /\ iRet' = <<[NoInitRet EXCEPT !.op = "runInit", !.sync = sync, !.noImport = noImport,
                                           !.vars = evars,
                                           !.include = GenerateProjectConfig(evars)]>>
         \/ /\ ~noImport /\ evars # <<>>
            /\ iStore' = iStore
            /\ iRet' = <<[NoInitRet EXCEPT !.op = "runInit", !.sync = sync, !.noImport = noImport,
                                           !.err = TRUE, !.vars = evars,
                                           !.include = GenerateProjectConfig(evars)]>>
    /\ UNCHANGED <<iEnvFile, iBefore, matchVars, resolverVars, writeVars, storeVars, cryptoVars,
                   projectVars, nameVars>>

NextInit ==
    \/ \E sync \in BOOLEAN : \E noImport \in BOOLEAN : runInit(sync, noImport)
    \/ \E sync \in BOOLEAN : \E noImport \in BOOLEAN : runInitDeleting(sync, noImport)

SpecInit == InitInit /\ [][NextInit]_vars

(***************************************************************************)
(* Properties of the include matcher.                                      *)
(***************************************************************************)
NoSlash(s) == ~Contains(s, "/")

RECURSIVE StarOnlyAccepts(_, _)
\* The key is the pattern with each `*` replaced by some run of characters,
\* every other character of the pattern standing for itself.
StarOnlyAccepts(p, k) ==
    IF p = <<>> THEN k = <<>>
    ELSE IF p[1] = "*" THEN \E i \in 0..Len(k) : StarOnlyAccepts(Tail(p), Drop(k, i))
    ELSE k # <<>> /\ k[1] = p[1] /\ StarOnlyAccepts(Tail(p), Tail(k))

RECURSIVE GlobAccepts(_, _)
\* The key is the pattern with each `*` replaced by some run of characters
\* other than `/` and each `?` by one character other than `/`, every other
\* character of the pattern standing for itself.
GlobAccepts(p, k) ==
    IF p = <<>> THEN k = <<>>
    ELSE IF p[1] = "*"
    THEN \E i \in 0..Len(k) : NoSlash(SubSeq(k, 1, i)) /\ GlobAccepts(Tail(p), Drop(k, i))
    ELSE IF p[1] = "?" THEN k # <<>> /\ k[1] # "/" /\ GlobAccepts(Tail(p), Tail(k))
    ELSE k # <<>> /\ k[1] = p[1] /\ GlobAccepts(Tail(p), Tail(k))

Entries == {rResolved[1][i] : i \in 1..Len(rResolved[1])}

\* The Store keys some include pattern selects, prefix included.
SelectedStoreKeys ==
    {s \in DOMAIN rStore.Variables :
        \E j \in 1..Len(rProject.Include) :
            matchPattern(Prefix(rProject) \o rProject.Include[j], s)}

\* The logical keys of the merged map: those of the selected Store keys and
\* those of the overrides.
MergedKeys ==
    {LogicalKey(s, Prefix(rProject)) : s \in SelectedStoreKeys}
        \cup DOMAIN rProject.Overrides

\* No computed entry and no other logical key produces k's output name.
NameIsFree(k) ==
    /\ keyToEnvName(rProject, k) \notin DOMAIN rProject.Computed
    /\ \A h \in MergedKeys \ {k} : keyToEnvName(rProject, h) # keyToEnvName(rProject, k)

\* C2: an override of logical key k whose output name nothing else produces
\* yields exactly one entry with Key k, and it carries the override's value
\* and Source "override", whatever the Store holds for k.
C2_OverrideWins ==
    rResolved # <<>> =>
        \A k \in DOMAIN rProject.Overrides :
            NameIsFree(k) =>
                /\ Cardinality({e \in Entries : e.Key = k}) = 1
                /\ \A e \in Entries : e.Key = k =>
                      e.Value = rProject.Overrides[k] /\ e.Source = "override"

\* An overridden key whose Store value an include pattern selects has been
\* resolved.
C2_Witness ==
    /\ rResolved # <<>>
    /\ kC \in DOMAIN rProject.Overrides
    /\ NameIsFree(kC)
    /\ (Prefix(rProject) \o kC) \in SelectedStoreKeys
    /\ \E e \in Entries : e.Key = kC /\ e.Source = "override"

\* C3: every computed output name n has exactly one entry, with Source
\* "computed", Key "" and the interpolated template as Value, also when a
\* logical key of the merged map transforms to n.
C3_ComputedWins ==
    rResolved # <<>> =>
        \E resolved \in Merged(rStore, rProject) :
            \A n \in DOMAIN rProject.Computed :
                /\ Cardinality({e \in Entries : e.EnvName = n}) = 1
                /\ \A e \in Entries : e.EnvName = n =>
                      /\ e.Source = "computed"
                      /\ e.Key = <<>>
                      /\ e.Value = interpolate(rProject.Computed[n], ValueMap(resolved),
                                               rStore, rProject)

\* A computed name that a selected Store key also transforms to has been
\* resolved.
C3_Witness ==
    /\ rResolved # <<>>
    /\ \E n \in DOMAIN rProject.Computed :
          /\ \E k \in MergedKeys : keyToEnvName(rProject, k) = n
          /\ \E e \in Entries : e.EnvName = n /\ e.Source = "computed"

\* C4 as stated: every entry with Source "store" has a Key k and Value v
\* with prefix+k a Store key holding v that a prefixed include pattern
\* matches; conversely every selected Store key whose logical key is not
\* overridden and whose output name is free yields such an entry.
C4_StoreEntries ==
    rResolved # <<>> =>
        LET prefix == Prefix(rProject)
        IN  /\ \A e \in Entries : e.Source = "store" =>
                  /\ (prefix \o e.Key) \in SelectedStoreKeys
                  /\ rStore.Variables[prefix \o e.Key] = e.Value
            /\ \A s \in SelectedStoreKeys :
                  LET k == LogicalKey(s, prefix)
                  IN  (k \notin DOMAIN rProject.Overrides /\ NameIsFree(k)) =>
                          \E e \in Entries :
                              /\ e.Key = k /\ e.Source = "store"
                              /\ e.Value = rStore.Variables[s]
                              /\ s = prefix \o k

\* C5 as stated: every invocation of Resolve() on the same Store and
\* Project Configuration returns the same list.
C5_Deterministic == (rResolved # <<>> /\ rPrevious # <<>>) => rResolved = rPrevious

\* A template as a list of parts: literal text, and references ${key}.
Lit(text) == [ref |-> FALSE, text |-> text]

RefTo(key) == [ref |-> TRUE, text |-> key]

\* The part lists of the templates of ComputedMaps.
TemplateParts ==
    {<<Lit(<<"$">>), RefTo(kC), Lit(<<"-">>), RefTo(<<"z">>)>>,
     <<RefTo(kAB)>>, <<RefTo(nY)>>, <<RefTo(kC)>>}

RECURSIVE Render(_)
\* The template a part list spells.
Render(parts) ==
    IF parts = <<>> THEN <<>>
    ELSE (IF parts[1].ref THEN Ref(parts[1].text) ELSE parts[1].text) \o Render(Tail(parts))

\* The first value found for id: the merged map, the Store under
\* prefix+id, the Store under id; the placeholder itself when none has it.
FirstFound(id, resolved) ==
    IF id \in DOMAIN resolved THEN resolved[id].value
    ELSE IF (Prefix(rProject) \o id) \in DOMAIN rStore.Variables
    THEN rStore.Variables[Prefix(rProject) \o id]
    ELSE IF id \in DOMAIN rStore.Variables THEN rStore.Variables[id]
    ELSE Ref(id)

RECURSIVE Filled(_, _)
\* The part list with each reference replaced by the first value found.
Filled(parts, resolved) ==
    IF parts = <<>> THEN <<>>
    ELSE (IF parts[1].ref THEN FirstFound(parts[1].text, resolved) ELSE parts[1].text)
         \o Filled(Tail(parts), resolved)

\* C6: the value of a computed entry is its template with each ${id}
\* replaced by the first value found in the order merged map, Store under
\* prefix+id, Store under id, and left as ${id} when none of them has id.
C6_LookupOrder ==
    rResolved # <<>> =>
        \E resolved \in Merged(rStore, rProject) :
            \A n \in DOMAIN rProject.Computed :
                \E parts \in TemplateParts :
                    /\ Render(parts) = rProject.Computed[n]
                    /\ \E e \in Entries : e.EnvName = n /\ e.Value = Filled(parts, resolved)

\* A template whose first reference is found only in the Store, under the
\* prefixed key though the un-prefixed key exists too, and whose second
\* reference is found nowhere, has been interpolated.
C6_Witness ==
    /\ rResolved # <<>>
    /\ rProject.Project = <<"p">>
    /\ kC \notin MergedKeys
    /\ {kPC, kC} \subseteq DOMAIN rStore.Variables
    /\ \E e \in Entries :
          /\ e.EnvName = nX
          /\ e.Value = <<"$", "1", "-">> \o Ref(<<"z">>)

C8_MissingExact ==
    rMissing # <<>> =>
        LET missing == rMissing[1]
            literal(p) == ~Contains(p, "*") /\ ~Contains(p, "?") /\ ~Contains(p, "[")
        IN  /\ {missing[i] : i \in DOMAIN missing} =
                  {p \in {rProject.Include[j] : j \in DOMAIN rProject.Include} :
                      literal(p) /\ (Prefix(rProject) \o p) \notin DOMAIN rStore.Variables}
            /\ \A i \in DOMAIN missing : \A j \in DOMAIN missing :
                  i < j => StrLess(missing[i], missing[j])

\* Two literal patterns listed in descending order were both missing.
C8_Witness ==
    /\ rProject.Include = <<kC, kAB>>
    /\ rMissing = << <<kAB, kC>> >>

\* C9: no step of Resolve() or MissingVars() changes the Store or the
\* Project Configuration.
C9_Frame == [][rStore' = rStore /\ rProject' = rProject]_vars

\* Resolve() has been called twice and MissingVars() once on a Store and a
\* Project Configuration that are not empty.
C9_Witness ==
    /\ rResolved # <<>> /\ rPrevious # <<>> /\ rMissing # <<>>
    /\ rStore.Variables # EmptyMap
    /\ rProject.Overrides # EmptyMap

(***************************************************************************)
(* Properties of the atomic write.                                         *)
(***************************************************************************)
\* C1: in every state of every interleaving of the steps, kills and
\* injected errors, the target is the file it was before the writes or
\* holds the complete data of one of the writes.
C1_TargetWhole ==
    \/ wFiles[Target] = wBefore
    \/ \E w \in Writers : wFiles[Target].exists /\ wFiles[Target].data = Data(w)

\* One process was killed with its temporary file half written, the other
\* failed after writing and cleaned up, and the target that existed before
\* is as it was.
C1_Witness ==
    /\ wBefore.exists
    /\ wFiles[Target] = wBefore
    /\ wPc["A"] = "killed" /\ 0 < wWritten["A"] /\ wWritten["A"] < PayloadLen
    /\ wFiles[wTmpName["A"]].data = SubSeq(Data("A"), 1, wWritten["A"])
    /\ wPc["B"] = "failed" /\ wWritten["B"] = PayloadLen
    /\ ~wFiles[wTmpName["B"]].exists

(***************************************************************************)
(* Order of the list Resolve() returns.                                    *)
(***************************************************************************)
\* C11: the list Resolve() returns is in strictly ascending EnvName order,
\* so it is sorted and no EnvName appears twice.
C11_StrictlyAscending ==
    rResolved # <<>> =>
        \A i \in 1..Len(rResolved[1]) : \A j \in 1..Len(rResolved[1]) :
            i < j => StrLess(rResolved[1][i].EnvName, rResolved[1][j].EnvName)

\* A list of three entries has been returned for a merged map in which two
\* logical keys produce the same output name.
C11_Witness ==
    /\ rResolved # <<>>
    /\ Len(rResolved[1]) = 3
    /\ \E k \in MergedKeys : \E h \in MergedKeys :
          k # h /\ keyToEnvName(rProject, k) = keyToEnvName(rProject, h)

(***************************************************************************)
(* Properties of the Store's operations and of its file.                   *)
(***************************************************************************)
\* The keys whose most recent Set or Delete was a Set.
PresentKeys == {k \in KeySet : sLast[k][1] = "set"}

\* What a call has just returned agrees with the most recent Set or Delete
\* on each key.
ReturnAgrees ==
    sRet' # <<>> =>
        LET r == sRet'[1]
        IN  /\ r.op = "Get" =>
                  IF r.key \in PresentKeys
                  THEN r.ok /\ r.val = sLast[r.key][2]
                  ELSE ~r.ok /\ r.val = <<>>
            /\ r.op = "Delete" =>
                  /\ r.ok <=> r.key \in DOMAIN sStore.Variables
                  /\ r.key \notin DOMAIN sStore'.Variables
                  /\ \A k \in KeySet \ {r.key} :
                        /\ k \in DOMAIN sStore'.Variables <=> k \in DOMAIN sStore.Variables
                        /\ k \in DOMAIN sStore.Variables =>
                              sStore'.Variables[k] = sStore.Variables[k]
            /\ r.op = "Keys" =>
                  /\ {r.keys[i] : i \in DOMAIN r.keys} = PresentKeys
                  /\ \A i \in DOMAIN r.keys : \A j \in DOMAIN r.keys :
                        i < j => StrLess(r.keys[i], r.keys[j])
            /\ r.op = "Len" => r.len = Cardinality(PresentKeys)

\* C20: on a Store made by New(), Get(k) returns (v, true) exactly when the
\* most recent Set or Delete on k was Set(k, v), and ("", false) otherwise;
\* Delete(k) returns whether k was present just before and changes no other
\* key; Keys() is the strictly ascending list of the present keys and Len()
\* is their number.
C20_StoreOps == [][ReturnAgrees]_vars

\* Get has returned ("", true) for a key set to the empty string while the
\* other key, once set, has been deleted.
C20_Witness ==
    /\ sRet # <<>>
    /\ sRet[1].op = "Get" /\ sRet[1].ok /\ sRet[1].val = <<>>
    /\ \E k \in KeySet \ {sRet[1].key} : sLast[k] = <<"delete">>

\* The file begins with the 8-byte magic marker.
BeginsWithMagic(data) ==
    Len(data) >= 8 /\ Text(SubSeq(data, 1, 8)) = <<"V", "A", "R", "N", "I", "S", "H", NUL>>

\* The last call was a load of the file that the last successful save wrote.
LoadedTheSaved == sRet # <<>> /\ sRet[1].op \in {"Load", "LoadFrom"} /\ sSaved # <<>>

\* C12: loading the file an unencrypted Store S was saved to yields, without
\* error, a Store with S's version and variables and the encrypted flag
\* false.
C12_RoundTrip ==
    (LoadedTheSaved /\ ~sSaved[1].store.encrypted) =>
        /\ ~sRet[1].err
        /\ sRet[1].store = <<[Version |-> sSaved[1].store.Version,
                              Variables |-> sSaved[1].store.Variables,
                              encrypted |-> FALSE]>>

\* A Store holding the empty string under one key and a value with ": "
\* under the other, a key deleted and set again before, has been saved and
\* loaded.
C12_Witness ==
    /\ LoadedTheSaved /\ ~sRet[1].err
    /\ sRet[1].op = "LoadFrom"
    /\ DOMAIN sRet[1].store[1].Variables = KeySet
    /\ \E k \in KeySet : sRet[1].store[1].Variables[k] = <<>>
    /\ \E k \in KeySet : sRet[1].store[1].Variables[k] = <<"a", ":", " ", "b">>

\* The file is the Codec's envelope of the document of store under password:
\* marker, version byte, a salt, a nonce, and the sealed document.
IsEnvelopeOf(data, store, password) ==
    \E salt \in Salts : \E nonce \in Nonces :
        data = Encrypt(Marshal(store), password, salt, nonce)

\* C13: after a Store S with the encrypted flag set was saved under a
\* non-empty password, the file begins with the magic marker and is the
\* Codec's envelope of S's document, not the document itself; loading it
\* with the same password yields, without error, S's version and
\* variables and the encrypted flag true.
C13_EncryptedRoundTrip ==
    (sSaved # <<>> /\ sSaved[1].store.encrypted) =>
        /\ sSaved[1].password # <<>>
        /\ BeginsWithMagic(sFile.data)
        /\ IsEnvelopeOf(sFile.data, sSaved[1].store, sSaved[1].password)
        /\ sFile.data # Bytes(Marshal(sSaved[1].store))
        /\ (LoadedTheSaved /\ sEnv = sSaved[1].password) =>
              /\ ~sRet[1].err
              /\ sRet[1].store = <<[Version |-> sSaved[1].store.Version,
                                    Variables |-> sSaved[1].store.Variables,
                                    encrypted |-> TRUE]>>

\* An encrypted Store with a variable has been saved and loaded with the
\* password it was saved under.
C13_Witness ==
    /\ LoadedTheSaved /\ sSaved[1].store.encrypted
    /\ sEnv = sSaved[1].password
    /\ ~sRet[1].err
    /\ sRet[1].store[1].encrypted
    /\ DOMAIN sRet[1].store[1].Variables # {}

\* The last call was a load of an existing file.
LoadedAFile == sRet # <<>> /\ sRet[1].op \in {"Load", "LoadFrom"} /\ sFile.exists

\* C14: a load takes the file as encrypted exactly when its bytes begin
\* with the 8-byte marker: a file that does not (a shorter or empty one
\* included) is parsed as a plaintext document whatever the password is,
\* a file that does is never read without a password; the encrypted flag
\* of the Store returned equals the test, and its variables map is not
\* null.
C14_MagicDecides ==
    LoadedAFile =>
        LET r == sRet[1]
            doc == Unmarshal(Text(sFile.data))
        IN  /\ ~BeginsWithMagic(sFile.data) =>
                 /\ r.err = doc.err
                 /\ ~r.err => r.store[1].Variables = doc.Variables
            /\ (BeginsWithMagic(sFile.data) /\ sEnv = <<>>) => r.err
            /\ ~r.err => /\ r.store[1].encrypted = BeginsWithMagic(sFile.data)
                         /\ ~r.nilVariables

\* An empty file has been loaded with a password set: it was read as a
\* plaintext document and the Store returned has an empty map.
C14_Witness ==
    /\ LoadedAFile /\ ~sRet[1].err
    /\ sFile.data = <<>> /\ sEnv # <<>>
    /\ ~IsEncrypted(sFile.data)
    /\ sRet[1].store[1].Variables = EmptyMap
    /\ ~sRet[1].store[1].encrypted

\* C15: loading a file that a save wrote encrypted, with the password
\* unset or empty or different from the one it was saved under, returns an
\* error and no Store, and leaves the file as it was.
C15_WrongPassword ==
    [][(/\ sRet' # <<>> /\ sRet'[1].op \in {"Load", "LoadFrom"}
        /\ sSaved # <<>> /\ sSaved[1].store.encrypted
        /\ sEnv # sSaved[1].password)
       => (/\ sRet'[1].err
           /\ sRet'[1].store = <<>>
           /\ sFile' = sFile)]_vars

\* An encrypted file has been loaded with another password than the one it
\* was saved under.
C15_Witness ==
    /\ LoadedTheSaved /\ sSaved[1].store.encrypted
    /\ sEnv # <<>> /\ sEnv # sSaved[1].password
    /\ sRet[1].err

\* The last call was a load and there is no file at the path.
LoadedNoFile == sRet # <<>> /\ sRet[1].op \in {"Load", "LoadFrom"} /\ ~sFile.exists

\* C16 as stated: whichever load is called, at a path with no file it
\* returns, without error, a Store equal to New().
C16_EveryEntryPoint ==
    LoadedNoFile => (~sRet[1].err /\ sRet[1].store = <<New>>)

\* C16: at a path with no file, Load() returns, without error, a Store
\* equal to New() (version 1, no variables, not encrypted); LoadFrom(path)
\* returns an error and no Store.
C16_MissingFile ==
    LoadedNoFile =>
        IF sRet[1].op = "Load"
        THEN /\ ~sRet[1].err
             /\ sRet[1].store = <<[Version |-> 1, Variables |-> EmptyMap, encrypted |-> FALSE]>>
        ELSE sRet[1].err /\ sRet[1].store = <<>>

\* Load() has been called with no file at the path, the Store in memory
\* holding a variable and having its encrypted flag set.
C16_Witness ==
    /\ LoadedNoFile /\ sRet[1].op = "Load"
    /\ sRet[1].store = <<New>>
    /\ sStore.encrypted /\ DOMAIN sStore.Variables # {}

(***************************************************************************)
(* Properties of AtomicWrite's outcome.                                    *)
(***************************************************************************)
\* The step in which the call of w returns an error.
ReturnsError(w) == wPc[w] \in {"start", "cleanup"} /\ wPc'[w] = "failed"

\* The step in which the call of w returns nil: its os.Rename has succeeded.
ReturnsNil(w) == wPc[w] = "rename" /\ wPc'[w] = "done"

\* C17: when the call of a process returns an error, the temporary file it
\* created does not exist; and the target is as it was before the call: no
\* step changes the target but the os.Rename of a call that returns nil.
C17_ErrorLeavesNothing ==
    [][/\ \A w \in Writers :
             (ReturnsError(w) /\ wTmpName[w] # "") => ~wFiles'[wTmpName[w]].exists
       /\ wFiles'[Target] # wFiles[Target] => \E w \in Writers : ReturnsNil(w)]_vars

\* C18: when the call of a process returns nil, the target holds exactly
\* the data of the call with exactly the permission bits asked for, and
\* the temporary file of the call is no longer in the directory; so a call
\* with the data the target already holds leaves the target as it is.
C18_SuccessExact ==
    [][\A w \in Writers :
          ReturnsNil(w) =>
             /\ wFiles'[Target] = [exists |-> TRUE, data |-> Data(w), perm |-> wPerm[w]]
             /\ ~wFiles'[wTmpName[w]].exists
             /\ (wFiles[Target].exists /\ wFiles[Target].data = Data(w)
                 /\ wFiles[Target].perm = wPerm[w]) => wFiles'[Target] = wFiles[Target]]_vars

\* The process A, whose os.Rename was the last to happen, has called again
\* with the same data and is about to rename onto the target that holds
\* it; the target had mode 0644 before the writes.
C18_Witness ==
    /\ wLastRename = "A" /\ wPc["A"] = "rename"
    /\ wBefore.exists /\ wBefore.perm = PermConfig
    /\ wFiles[Target] = [exists |-> TRUE, data |-> Data("A"), perm |-> PermSecure]
    /\ wFiles[wTmpName["A"]] = wFiles[Target]

\* The processes that are not in the middle of a call.
Finished == {w \in Writers : wPc[w] \in {"start", "done", "failed", "killed"}}

\* C19: at every moment a reader of the target finds no file, if there was
\* none, or the complete document that was there before, or the complete
\* data of one of the two processes, and can unmarshal what it reads; and
\* the target holds the data of the process whose rename happened last,
\* in particular once both processes have finished.
C19_LastRenameWins ==
    /\ wFiles[Target].exists =>
          /\ wFiles[Target].data \in {OldData, Data("A"), Data("B")}
          /\ ~Unmarshal(Flatten(wFiles[Target].data)).err
    /\ ~wFiles[Target].exists => (~wBefore.exists /\ wLastRename = "")
    /\ wLastRename = "" => wFiles[Target] = wBefore
    /\ wLastRename # "" =>
          wFiles[Target] = [exists |-> TRUE, data |-> Data(wLastRename),
                            perm |-> wPerm[wLastRename]]
    /\ (Finished = Writers /\ wLastRename # "") =>
          Unmarshal(Flatten(wFiles[Target].data)).Variables = PayloadStore(wLastRename).Variables

\* Both processes have returned nil, A's rename before B's: the target
\* holds B's document.
C19_Witness ==
    /\ wPc["A"] = "done" /\ wPc["B"] = "done"
    /\ wLastRename = "B"
    /\ wFiles[Target].data = Data("B")
    /\ Data("A") # Data("B")
    /\ wBefore.exists

C22_EnableEncryption ==
    [][(sRet' # <<>> /\ sRet'[1].op = "EnableEncryption") =>
          IF sEnv = <<>>
          THEN sRet'[1].err /\ sStore' = sStore
          ELSE /\ ~sRet'[1].err
               /\ sStore'.encrypted
               /\ sStore' = [sStore EXCEPT !.encrypted = TRUE]]_vars

\* EnableEncryption() has failed for want of a password on a Store whose
\* flag an earlier call had set: the flag is still true.
C22_Witness ==
    /\ sRet # <<>> /\ sRet[1].op = "EnableEncryption" /\ sRet[1].err
    /\ sEnv = <<>>
    /\ sStore.encrypted

(***************************************************************************)
(* Properties of internal/crypto.                                          *)
(***************************************************************************)
\* The data handed to the last Decrypt is what Encrypt returned, unedited.
DecryptedABlob == cRet # <<>> /\ cData[1].flip = 0 /\ ~cData[1].cut

\* C23: Decrypt of what Encrypt(P, pw) returned, under the same non-empty
\* password pw, returns no error and exactly P, the empty P included.
C23_RoundTrip ==
    (DecryptedABlob /\ cPassword # <<>> /\ cRet[1].password = cPassword) =>
        (~cRet[1].err /\ cRet[1].plaintext = cPlaintext)

\* The empty plaintext has been encrypted and decrypted.
C23_Witness ==
    /\ DecryptedABlob /\ cPassword # <<>> /\ cRet[1].password = cPassword
    /\ cPlaintext = <<>>
    /\ ~cRet[1].err /\ cRet[1].plaintext = <<>>

\* The length of the smallest envelope: marker, version, salt, nonce, tag.
MinEnvelope == 8 + 1 + 16 + 12 + 16

\* C24: Decrypt fails for an empty password whatever the data; else for
\* data shorter than the smallest envelope or not beginning with the
\* marker; else for a version byte other than 1; else when the
\* authenticated decryption fails, which it does unless the data is what
\* Encrypt returned under this password; each with its own error, and in
\* this order.  It returns the plaintext when none of these applies.
C24_ErrorOrder ==
    cRet # <<>> =>
        LET d == cData[1].bytes
            r == cRet[1]
            failsWith(msgs) == r.err /\ r.msg \in msgs /\ r.plaintext = <<>>
        IN  IF r.password = <<>> THEN failsWith({ErrPasswordRequired})
            ELSE IF Len(d) < MinEnvelope \/ ~BeginsWithMagic(d)
            THEN failsWith({ErrTooShort, ErrNoMagic})
            ELSE IF d[9] # B("x01") THEN failsWith({ErrVersion})
            ELSE IF cData[1].flip # 0 \/ cData[1].cut \/ r.password # cPassword
            THEN failsWith({ErrDecrypt})
            ELSE ~r.err /\ r.plaintext = cPlaintext

\* Decrypt was given, with a password, data cut below the smallest
\* envelope whose version byte is wrong as well: the error is the one for
\* the length.
C24_Witness ==
    /\ cRet # <<>> /\ cRet[1].password # <<>>
    /\ cData[1].cut /\ cData[1].flip = 9
    /\ Len(cData[1].bytes) = MinEnvelope - 1
    /\ cRet[1].err /\ cRet[1].msg = ErrTooShort

\* C25: Decrypt of what Encrypt(P, pw1) returned fails under a password
\* other than pw1, and fails under pw1 when one byte of the ciphertext
\* region has been changed; in both cases with the same error, that of the
\* authenticated decryption, and without a plaintext.
C25_NoPlaintextLeak ==
    (/\ cRet # <<>> /\ ~cData[1].cut /\ cRet[1].password # <<>>
     /\ \/ cData[1].flip = 0 /\ cRet[1].password # cPassword
        \/ cData[1].flip > 8 + 1 + 16 + 12 /\ cRet[1].password = cPassword)
    => (cRet[1].err /\ cRet[1].msg = ErrDecrypt /\ cRet[1].plaintext = <<>>)

\* A byte of the encrypted plaintext (not of the tag) has been changed and
\* Decrypt called with the right password.
C25_Witness ==
    /\ cRet # <<>> /\ ~cData[1].cut
    /\ cPassword # <<>> /\ cRet[1].password = cPassword
    /\ cPlaintext # <<>>
    /\ cData[1].flip = 8 + 1 + 16 + 12 + 1
    /\ cRet[1].err /\ cRet[1].msg = ErrDecrypt

\* C26: two calls of Encrypt with the same plaintext and password return
\* different bytes, and each of them decrypts to the plaintext under the
\* password.
C26_FreshEachCall ==
    Len(cBlobs) = 2 =>
        /\ cBlobs[1] # cBlobs[2]
        /\ cPassword # <<>> =>
              \A i \in 1..2 : /\ ~Decrypt(cBlobs[i], cPassword).err
                              /\ Decrypt(cBlobs[i], cPassword).plaintext = cPlaintext

\* Encrypt has been called twice with a plaintext and a password; the two
\* results differ in salt and nonce and have the same length.
C26_Witness ==
    /\ Len(cBlobs) = 2 /\ cPassword # <<>> /\ cPlaintext # <<>>
    /\ Len(cBlobs[1]) = Len(cBlobs[2])
    /\ cBlobs[1][10] # cBlobs[2][10]
    /\ cBlobs[1][26] # cBlobs[2][26]

(***************************************************************************)
(* Properties of the Project Configuration.                                *)
(***************************************************************************)
\* C27: a Project Configuration that NewProjectConfig or a load of a valid
\* file returns has include, overrides, mappings and computed non-nil.
C27_CollectionsPresent ==
    (pRet # <<>> /\ ~pRet[1].err) =>
        /\ ~pRet[1].cfg[1].Include.isNil
        /\ ~pRet[1].cfg[1].Overrides.isNil
        /\ ~pRet[1].cfg[1].Mappings.isNil
        /\ ~pRet[1].cfg[1].Computed.isNil

\* The part of it that holds: the three maps are never nil, and the
\* constructor's include is not nil.
C27_MapsPresent ==
    (pRet # <<>> /\ ~pRet[1].err) =>
        /\ pRet[1].op = "NewProjectConfig" => ~pRet[1].cfg[1].Include.isNil
        /\ ~pRet[1].cfg[1].Overrides.isNil
        /\ ~pRet[1].cfg[1].Mappings.isNil
        /\ ~pRet[1].cfg[1].Computed.isNil

(***************************************************************************)
(* Properties of envNameToKey and keyToEnvName.                            *)
(***************************************************************************)
\* C28: for a valid name of an env file, the Resolver's name of its key is
\* the name itself, and the key of that name is the key again.
C28_Inverse ==
    /\ nBack # <<>> => nBack[1] = nName
    /\ nAgain # <<>> => nAgain[1] = nKey[1]

\* The half of it that holds: key, name, key returns the key.
C28_KeyReturns == nAgain # <<>> => nAgain[1] = nKey[1]

\* It holds for the names without a lower-case letter.
C28_UpperCaseNames ==
    (nBack # <<>> /\ \A i \in 1..Len(nName) : LowerChar(nName[i]) = nName[i] => ~IsLetter(nName[i]))
        => nBack[1] = nName

(***************************************************************************)
(* Properties of invocations on an encrypted store file.                   *)
(***************************************************************************)
\* C29: once the store file is encrypted it stays encrypted under Load,
\* Set, Delete and Save: the Store loaded from it has the encrypted flag and
\* keeps it, a successful Save of it writes an envelope that begins with
\* the marker, and a Save without a password fails and leaves the file.
C29_StaysEncrypted ==
    [][/\ (sFile.exists /\ IsEncrypted(sFile.data)) =>
            /\ sFile'.exists /\ IsEncrypted(sFile'.data)
            /\ sLoaded' # <<>> => sStore'.encrypted
       /\ (sLoaded # <<>> /\ sStore.encrypted /\ sRet' # <<>> /\ sRet'[1].op = "SaveTo") =>
            /\ ~sRet'[1].err => BeginsWithMagic(sFile'.data)
            /\ sRet'[1].err => sFile' = sFile
            /\ GetPassword(sEnv).err => sRet'[1].err]_vars

\* A Store loaded from an encrypted file was changed and saved, and the file
\* is an envelope of the changed Store.
C29_Witness ==
    /\ sLoaded # <<>> /\ sLoaded[1].encrypted
    /\ sLoaded[1].Variables # sStore.Variables
    /\ sRet # <<>> /\ sRet[1].op = "SaveTo" /\ ~sRet[1].err
    /\ IsEncrypted(sFile.data)
    /\ sSaved # <<>> /\ sSaved[1].store = sStore

(***************************************************************************)
(* Properties of init --sync.                                              *)
(***************************************************************************)
\* The command succeeded with --sync, without --no-import, on a file with
\* at least one variable.
Synced ==
    /\ iRet # <<>> /\ ~iRet[1].err
    /\ iRet[1].sync /\ ~iRet[1].noImport
    /\ iRet[1].vars # <<>>

\* Every key of the project in the Store is the key of a variable of the file.
OnlyKeysOfTheFile ==
    \A k \in DOMAIN iStore :
        IsPrefixOf(ProjectPrefix, k) => \E i \in 1..Len(iRet[1].vars) : k = ProjectPrefix \o iRet[1].vars[i].Key

\* Every key outside the project is as it was before.
OthersKept ==
    /\ \A k \in DOMAIN iBefore :
          ~IsPrefixOf(ProjectPrefix, k) => k \in DOMAIN iStore /\ iStore[k] = iBefore[k]
    /\ \A k \in DOMAIN iStore : ~IsPrefixOf(ProjectPrefix, k) => k \in DOMAIN iBefore

\* The variable i of the file is stored under its key with its value.
StoredAsGiven(i) ==
    /\ ProjectPrefix \o iRet[1].vars[i].Key \in DOMAIN iStore
    /\ iStore[ProjectPrefix \o iRet[1].vars[i].Key] = iRet[1].vars[i].Default

\* C30: after a successful init --sync for project p from a file with a
\* variable, every key p.* of the Store is the key of a variable of the
\* file, every variable with a value is stored under its key with that
\* value, and every other key is as it was.
C30_SyncResult ==
    Synced =>
        /\ OnlyKeysOfTheFile
        /\ \A i \in 1..Len(iRet[1].vars) : iRet[1].vars[i].HasValue => StoredAsGiven(i)
        /\ OthersKept

\* What holds of it: the keys, and the values of the variables that share
\* their key with no other variable of the file.
C30_SyncResultDistinctKeys ==
    Synced =>
        /\ OnlyKeysOfTheFile
        /\ \A i \in 1..Len(iRet[1].vars) :
              (/\ iRet[1].vars[i].HasValue
               /\ \A j \in 1..Len(iRet[1].vars) : iRet[1].vars[j].Key = iRet[1].vars[i].Key => j = i)
                 => StoredAsGiven(i)
        /\ OthersKept

====
